---- MODULE Spec2Model ----
(***************************************************************************)
(* Model of tools/convert_xlsx_to_json.py and                              *)
(* tools/make_admin_tree_and_duplicates.py (YCM_Map).                      *)
(*                                                                         *)
(* Strings are sequences of characters; a character is a TLA+ string that  *)
(* names one code point.  The module is kept in ASCII, so the non-ASCII    *)
(* code points of the source are named:                                    *)
(*   "cun" U+6751, "li" U+91CC : the two admin-unit suffix glyphs          *)
(*   "jia", "yi", "bing"       : any other ideographs of U+4E00..U+9FFF    *)
(*   "tai" U+53F0, "tai2" U+81FA, "dong" U+6771, "xian" U+7E23, ...        *)
(*   "chang" U+9577, "le" U+6A02, "he" U+548C, "ping" U+5E73, "lu" U+8DEF, *)
(*   "ba" U+516B, "xian2" U+8CE2, "san" U+4E09, "jian" U+9593,             *)
(*   "bin" U+6FF1, "xiang" U+9109, "ah" U+963F, "mei" U+7F8E, "yu" U+8A9E, *)
(*   "hai" U+6D77, "an" U+5CB8, "da" U+5927, "lin" U+6797                  *)
(*   "dun" U+3001 (ideographic comma), "nl" newline, "nul" U+0000          *)
(*   "idsp" U+3000 (ideographic space)                                     *)
(*   "fw(" U+FF08, "fw)" U+FF09, "fw," U+FF0C, "fw;" U+FF1B                *)
(*   "lb" U+3010, "rb" U+3011 (corner brackets)                            *)
(*   "n", "a", "N", "A", "k"   : Latin letters                             *)
(***************************************************************************)
EXTENDS Integers, Sequences, FiniteSets, TLC

VARIABLES
    NAME_NORMALIZATION,      \* convert_xlsx_to_json.NAME_NORMALIZATION
    TOWNSHIP_NORMALIZATION,  \* convert_xlsx_to_json.TOWNSHIP_NORMALIZATION
    normIn,                  \* norm_text: the value x it is applied to
    normOut,                 \* norm_text: <<norm_text(x), norm_text(norm_text(x))>> so far
    tokIn,                   \* split_aware_of_brackets: its arguments [s, separators]
    tokOut,                  \* split_aware_of_brackets: <<>> before the call, <<result>> after
    colmap,                  \* df_to_records: the logical fields colmap has a column for
    df,                      \* df_to_records: the rows of df iterated so far
    recs,                    \* df_to_records: recs
    all_village_notes,       \* df_to_records: all_village_notes
    all_non_admin,           \* df_to_records: all_non_admin
    tree,                    \* build_tree_and_dupes: tree
    seen_village,            \* build_tree_and_dupes: seen_village
    pair_ct,                 \* build_tree_and_dupes: pair_ct
    triple_ct,               \* build_tree_and_dupes: triple_ct
    fullrow_ct,              \* build_tree_and_dupes: fullrow_ct
    dup_csv,                 \* write_duplicates_csv: <<>> before, the rows written after
    idx,                     \* build_area_index: idx
    idx_i,                   \* build_area_index: records of the loop already visited
    tool,                    \* which main() runs: "convert", "tree" or "none"
    files,                   \* main: files, each by how its processing goes
    file_i,                  \* main: files of the loop already taken
    outcomes,                \* main: what each taken file left behind
    run,                     \* main: "running", "done" (Done. printed) or "aborted"
    config,                  \* raw/county_reforms.json: absent, unreadable, or its content
    load_pc,                 \* module start-up: "start", "names" (line 72 done), "loaded"
    log,                     \* the [INFO] and [WARN] lines the loaders printed
    stat_sets,               \* compute_admin_division_stats_v2: its nine sets
    stat_i,                  \* compute_admin_division_stats_v2: records already visited
    stats,                   \* compute_admin_division_stats_v2: <<>>, then <<its result>>
    col_tok,                 \* the token the Step-1 substitution is applied to
    col_site,                \* "none", or the function whose Step 1 has run
    col_out,                 \* the token after the Step-1 substitution
    tree_i                   \* build_tree_and_dupes reading the converter's frame: rows visited

vars == <<NAME_NORMALIZATION, TOWNSHIP_NORMALIZATION, normIn, normOut, tokIn, tokOut,
          colmap, df, recs, all_village_notes, all_non_admin,
          tree, seen_village, pair_ct, triple_ct, fullrow_ct, dup_csv,
          idx, idx_i, tool, files, file_i, outcomes, run, config, load_pc, log,
          stat_sets, stat_i, stats, col_tok, col_site, col_out, tree_i>>

dupVars == <<tree, seen_village, pair_ct, triple_ct, fullrow_ct, dup_csv>>
idxVars == <<idx, idx_i>>
mainVars == <<tool, files, file_i, outcomes, run>>
loadVars == <<config, load_pc, log>>
statVars == <<stat_sets, stat_i, stats>>
colVars == <<col_tok, col_site, col_out>>

recVars == <<colmap, df, recs, all_village_notes, all_non_admin>>

normVars == <<normIn, normOut>>
tokVars == <<tokIn, tokOut>>
tableVars == <<NAME_NORMALIZATION, TOWNSHIP_NORMALIZATION>>

\* the parts of the state a specification does not use
NormIdle == normIn = [k |-> "none"] /\ normOut = <<>>
TokIdle == tokIn = [s |-> <<>>, separators |-> {}] /\ tokOut = <<>>
RecIdle ==
    /\ colmap = {}
    /\ df = <<>>
    /\ recs = <<>>
    /\ all_village_notes = <<>>
    /\ all_non_admin = <<>>
DupIdle ==
    /\ tree = <<>>
    /\ seen_village = <<>>
    /\ pair_ct = <<>>
    /\ triple_ct = <<>>
    /\ fullrow_ct = <<>>
    /\ dup_csv = <<>>
IdxIdle ==
    /\ idx = <<>>
    /\ idx_i = 0
MainIdle ==
    /\ tool = "none"
    /\ files = <<>>
    /\ file_i = 0
    /\ outcomes = <<>>
    /\ run = "running"
LoadIdle ==
    /\ config = [k |-> "absent"]
    /\ load_pc = "loaded"
    /\ log = <<>>
StatIdle ==
    /\ stat_sets = <<>>
    /\ stat_i = 0
    /\ stats = <<>>
CollapseIdle ==
    /\ col_tok = <<>>
    /\ col_site = "none"
    /\ col_out = <<>>

-----------------------------------------------------------------------------
(* Characters and character classes                                        *)

CUN == "cun"
LI == "li"
DUN == "dun"
NL == "nl"
NUL == "nul"
SP == " "
IDSP == "idsp"
LP == "("
RP == ")"
FWLP == "fw("
FWRP == "fw)"
LB == "lb"
RB == "rb"
LSQ == "["
RSQ == "]"

\* [一-鿿]
CJK == {"cun", "li", "jia", "yi", "bing", "tai", "tai2", "bei", "shi", "zhong",
        "xian", "nan2", "xin", "tao", "yuan", "gao", "xiong", "dong",
        "chang", "le", "he", "ping", "lu", "ba", "xian2", "san", "jian",
        "bin", "xiang", "ah", "mei", "yu", "hai", "an", "da", "lin"}

\* Python's \s and str.strip() whitespace, as far as the model's alphabet goes
WS == {SP, NL, IDSP}

\* all strings over alphabet A of length at most n
Strs(A, n) == UNION {[1..k -> A] : k \in 0..n}

-----------------------------------------------------------------------------
(* Python string primitives                                                *)

RECURSIVE LStrip(_)
LStrip(s) == IF s # <<>> /\ Head(s) \in WS THEN LStrip(Tail(s)) ELSE s

RECURSIVE RStrip(_)
RStrip(s) ==
    IF s # <<>> /\ s[Len(s)] \in WS THEN RStrip(SubSeq(s, 1, Len(s) - 1)) ELSE s

\* str.strip()
Strip(s) == RStrip(LStrip(s))

\* str.replace(old, new) for one-character old and new
RECURSIVE Replace(_, _, _)
Replace(s, old, new) ==
    IF s = <<>> THEN <<>>
    ELSE <<IF Head(s) = old THEN new ELSE Head(s)>> \o Replace(Tail(s), old, new)

\* str.lower() on the Latin letters of the alphabet
LowerChar(c) == CASE c = "N" -> "n" [] c = "A" -> "a" [] OTHER -> c
RECURSIVE Lower(_)
Lower(s) == IF s = <<>> THEN <<>> ELSE <<LowerChar(Head(s))>> \o Lower(Tail(s))

\* re.sub(r"\s+", " ", s)
RECURSIVE CollapseWS(_)
CollapseWS(s) ==
    IF s = <<>> THEN <<>>
    ELSE IF Head(s) \in WS
         THEN <<SP>> \o CollapseWS(LStrip(s))
         ELSE <<Head(s)>> \o CollapseWS(Tail(s))

\* min(S)
SetMin(S) == CHOOSE m \in S : \A n \in S : m <= n

\* dict.get(key, default)
DictGet(d, key, default) == IF key \in DOMAIN d THEN d[key] ELSE default

-----------------------------------------------------------------------------
(* is_blank, norm_text                                                     *)

\* A cell value: None (a missing cell) or a string.
NoneVal == [k |-> "none"]
StrVal(s) == [k |-> "str", s |-> s]

is_blank(x) ==
    IF x.k = "none" THEN TRUE
    ELSE LET s == Strip(x.s)
         IN  s = <<>> \/ Lower(s) = <<"n", "a", "n">>

\* a plausible slip: trimming ASCII spaces before the ideographic space is
\* replaced, and not after the collapse
norm_clean_trim_first(str) ==
    LET RECURSIVE L(_)
        L(s) == IF s # <<>> /\ Head(s) = SP THEN L(Tail(s)) ELSE s
        RECURSIVE R(_)
        R(s) == IF s # <<>> /\ s[Len(s)] = SP THEN R(SubSeq(s, 1, Len(s) - 1)) ELSE s
        s1 == Replace(R(L(str)), IDSP, SP)
        s2 == CollapseWS(s1)
        s3 == Replace(Replace(s2, FWLP, LP), FWRP, RP)
    IN  Replace(Replace(s3, "fw;", ";"), "fw,", ",")

\* the text of norm_text before the table lookup (lines 111-117)
norm_clean(str) ==
    LET s1 == Replace(str, IDSP, SP)
        s2 == Strip(CollapseWS(s1))
        s3 == Replace(Replace(s2, FWLP, LP), FWRP, RP)
        s4 == Replace(Replace(s3, "fw;", ";"), "fw,", ",")
    IN  s4

norm_text_with(table, x) ==
    IF is_blank(x) THEN <<>>
    ELSE LET s == norm_clean(x.s) IN DictGet(table, s, s)

norm_text(x) == norm_text_with(NAME_NORMALIZATION, x)

-----------------------------------------------------------------------------
(* The built-in fallback table of _load_name_normalization (lines 58-69)   *)

BuiltinNameTable ==
    LET pairs == {
          << <<"tai", "bei", "shi">>,    <<"tai2", "bei", "shi">> >>,
          << <<"tai", "zhong", "shi">>,  <<"tai2", "zhong", "shi">> >>,
          << <<"tai", "zhong", "xian">>, <<"tai2", "zhong", "shi">> >>,
          << <<"tai", "nan2", "shi">>,   <<"tai2", "nan2", "shi">> >>,
          << <<"tai", "nan2", "xian">>,  <<"tai2", "nan2", "shi">> >>,
          << <<"tai", "bei", "xian">>,   <<"xin", "bei", "shi">> >>,
          << <<"tai2", "bei", "xian">>,  <<"xin", "bei", "shi">> >>,
          << <<"tao", "yuan", "xian">>,  <<"tao", "yuan", "shi">> >>,
          << <<"gao", "xiong", "xian">>, <<"gao", "xiong", "shi">> >>,
          << <<"tai", "dong", "xian">>,  <<"tai2", "dong", "xian">> >> }
    IN  [key \in {p[1] : p \in pairs} |-> (CHOOSE p \in pairs : p[1] = key)[2]]

EmptyTable == [key \in {} |-> <<>>]

-----------------------------------------------------------------------------
(* SpecNorm: norm_text applied to a value, then to its own result          *)

MaxNormLen == 3

NormAlphabet == {SP, IDSP, FWLP, "fw,", "n", "a", "N", "tai", "dong", "xian"}

NormInputs == {NoneVal} \cup {StrVal(s) : s \in Strs(NormAlphabet, MaxNormLen)}

\* Rename tables a county_reforms.json can load: old and new are non-empty
\* strings (line 50); nothing else is required of them.
NormKeys == {<<"tai">>, <<"dong">>}
NormTargets == {<<"tai">>, <<"dong">>, <<"xian">>, <<"n", "a", "n">>, <<SP, "tai">>}
NormTables ==
    {BuiltinNameTable} \cup
    UNION {[D -> NormTargets] : D \in SUBSET NormKeys}

NormInit ==
    /\ NAME_NORMALIZATION \in NormTables
    /\ TOWNSHIP_NORMALIZATION = EmptyTable
    /\ normIn \in NormInputs
    /\ normOut = <<>>
    /\ TokIdle
    /\ RecIdle
    /\ DupIdle
    /\ IdxIdle
    /\ MainIdle
    /\ LoadIdle
    /\ StatIdle
    /\ CollapseIdle
    /\ tree_i = 0

\* first application: norm_text(x)
NormApply ==
    /\ normOut = <<>>
    /\ normOut' = <<norm_text(normIn)>>
    /\ UNCHANGED <<tableVars, normIn, tokVars, recVars, dupVars, idxVars, mainVars, loadVars, statVars, colVars, tree_i>>

\* second application: norm_text(norm_text(x))
NormReapply ==
    /\ Len(normOut) = 1
    /\ normOut' = Append(normOut, norm_text(StrVal(normOut[1])))
    /\ UNCHANGED <<tableVars, normIn, tokVars, recVars, dupVars, idxVars, mainVars, loadVars, statVars, colVars, tree_i>>

NormNext == NormApply \/ NormReapply

SpecNorm == NormInit /\ [][NormNext]_vars

\* every rename target is left alone by norm_text
TargetsAreFixedPoints ==
    \A key \in DOMAIN NAME_NORMALIZATION :
        norm_text(StrVal(NAME_NORMALIZATION[key])) = NAME_NORMALIZATION[key]

\* C2 (as stated): norm_text(norm_text(x)) = norm_text(x) for every value x
\* and every loaded county-rename table.
C2_Idempotent_Original == Len(normOut) = 2 => normOut[2] = normOut[1]

\* C2 (amended): norm_text(norm_text(x)) = norm_text(x) for every value x
\* whenever every rename target of the table is itself a fixed point of
\* norm_text (in particular for the built-in table).
C2_Idempotent ==
    (Len(normOut) = 2 /\ TargetsAreFixedPoints) => normOut[2] = normOut[1]

\* a renamed, non-blank value has been normalized twice under a table whose
\* targets are fixed points
C2_Witness ==
    /\ Len(normOut) = 2
    /\ TargetsAreFixedPoints
    /\ NAME_NORMALIZATION # EmptyTable
    /\ normIn.k = "str"
    /\ normOut[1] # normIn.s
    /\ normOut[1] \in {NAME_NORMALIZATION[k] : k \in DOMAIN NAME_NORMALIZATION}

-----------------------------------------------------------------------------
(* split_aware_of_brackets (lines 122-154)                                 *)

Opening == {LP, LB, LSQ}
Closing == {RP, RB, RSQ}

Max0(n) == IF n < 0 THEN 0 ELSE n

\* the loop of lines 136-148 from character i on, then lines 150-154
RECURSIVE SplitLoop(_, _, _, _, _, _)
SplitLoop(s, separators, i, depth, current, res) ==
    IF i > Len(s)
    THEN LET last_token == Strip(current)
         IN  IF last_token # <<>> THEN Append(res, last_token) ELSE res
    ELSE LET char == s[i]
             d == IF char \in Opening THEN depth + 1
                  ELSE IF char \in Closing THEN Max0(depth - 1)
                  ELSE depth
         IN  IF d = 0 /\ char \in separators
             THEN LET token == Strip(current)
                  IN  SplitLoop(s, separators, i + 1, d, <<>>,
                                IF token # <<>> THEN Append(res, token) ELSE res)
             ELSE SplitLoop(s, separators, i + 1, d, Append(current, char), res)

\* a plausible slip: the corner brackets are not counted as brackets
RECURSIVE SplitLoopParenOnly(_, _, _, _, _, _)
SplitLoopParenOnly(s, separators, i, depth, current, res) ==
    IF i > Len(s)
    THEN LET last_token == Strip(current)
         IN  IF last_token # <<>> THEN Append(res, last_token) ELSE res
    ELSE LET char == s[i]
             d == IF char \in {LP, LSQ} THEN depth + 1
                  ELSE IF char \in {RP, RSQ} THEN Max0(depth - 1)
                  ELSE depth
         IN  IF d = 0 /\ char \in separators
             THEN LET token == Strip(current)
                  IN  SplitLoopParenOnly(s, separators, i + 1, d, <<>>,
                                IF token # <<>> THEN Append(res, token) ELSE res)
             ELSE SplitLoopParenOnly(s, separators, i + 1, d, Append(current, char), res)

split_aware_of_brackets_paren_only(s, separators) ==
    IF ~ \E i \in 1..Len(s) : s[i] \in separators
    THEN <<s>>
    ELSE SplitLoopParenOnly(s, separators, 1, 0, <<>>, <<>>)

split_aware_of_brackets(s, separators) ==
    IF ~ \E i \in 1..Len(s) : s[i] \in separators
    THEN <<s>>
    ELSE SplitLoop(s, separators, 1, 0, <<>>, <<>>)

\* the separator lists of extract_village_annotations (line 217) and of
\* split_multi (line 257)
AnnotSeparators == {DUN, NL, NUL}
MultiSeparators == {DUN, NL, ",", "fw,", "fw;", ";", "/"}

-----------------------------------------------------------------------------
(* SpecTok: split_aware_of_brackets applied to a string and a separator    *)
(* list                                                                    *)

MaxTokLen == 5

TokAlphabet == {"jia", SP, DUN, ",", LP, RP, LB, RB, LSQ, RSQ}

TokInit ==
    /\ tokIn \in [s : Strs(TokAlphabet, MaxTokLen),
                  separators : {AnnotSeparators, MultiSeparators}]
    /\ tokOut = <<>>
    /\ NAME_NORMALIZATION = EmptyTable
    /\ TOWNSHIP_NORMALIZATION = EmptyTable
    /\ NormIdle
    /\ RecIdle
    /\ DupIdle
    /\ IdxIdle
    /\ MainIdle
    /\ LoadIdle
    /\ StatIdle
    /\ CollapseIdle
    /\ tree_i = 0

Tokenize ==
    /\ tokOut = <<>>
    /\ tokOut' = <<split_aware_of_brackets(tokIn.s, tokIn.separators)>>
    /\ UNCHANGED <<tableVars, normVars, tokIn, recVars, dupVars, idxVars, mainVars, loadVars, statVars, colVars, tree_i>>

TokNext == Tokenize

SpecTok == TokInit /\ [][TokNext]_vars

\* Reference notions for the tokenizer's contract, stated without the
\* tokenizer's depth counter.
CloserOf(c) == CASE c = LP -> RP [] c = LB -> RB [] c = LSQ -> RSQ

\* every bracket of s is matched by one of its own kind, properly nested
RECURSIVE BalancedFrom(_, _, _)
BalancedFrom(s, i, stack) ==
    IF i > Len(s) THEN stack = <<>>
    ELSE IF s[i] \in Opening THEN BalancedFrom(s, i + 1, <<CloserOf(s[i])>> \o stack)
    ELSE IF s[i] \in Closing
         THEN stack # <<>> /\ Head(stack) = s[i] /\ BalancedFrom(s, i + 1, Tail(stack))
    ELSE BalancedFrom(s, i + 1, stack)

Balanced(s) == BalancedFrom(s, 1, <<>>)

\* brackets opened and not yet closed before position i
NestingAt(s, i) ==
    Cardinality({j \in 1..(i - 1) : s[j] \in Opening})
    - Cardinality({j \in 1..(i - 1) : s[j] \in Closing})

TopLevelSeparators(s, separators) ==
    {i \in 1..Len(s) : s[i] \in separators /\ NestingAt(s, i) = 0}

NestedSeparators(s, separators) ==
    {i \in 1..Len(s) : s[i] \in separators /\ NestingAt(s, i) > 0}

\* the top-level separator-delimited segments of s from position start on
RECURSIVE SegmentsFrom(_, _, _)
SegmentsFrom(s, separators, start) ==
    LET cuts == {i \in TopLevelSeparators(s, separators) : i >= start}
    IN  IF cuts = {} THEN <<SubSeq(s, start, Len(s))>>
        ELSE <<SubSeq(s, start, SetMin(cuts) - 1)>>
             \o SegmentsFrom(s, separators, SetMin(cuts) + 1)

Segments(s, separators) == SegmentsFrom(s, separators, 1)

RECURSIVE TrimmedNonBlank(_)
TrimmedNonBlank(segs) ==
    IF segs = <<>> THEN <<>>
    ELSE IF Strip(Head(segs)) = <<>> THEN TrimmedNonBlank(Tail(segs))
    ELSE <<Strip(Head(segs))>> \o TrimmedNonBlank(Tail(segs))

HasSeparator(s, separators) == \E i \in 1..Len(s) : s[i] \in separators

CountIn(tok, separators) == Cardinality({i \in 1..Len(tok) : tok[i] \in separators})

RECURSIVE SumCountIn(_, _)
SumCountIn(toks, separators) ==
    IF toks = <<>> THEN 0
    ELSE CountIn(Head(toks), separators) + SumCountIn(Tail(toks), separators)

\* C3 (as stated): for a string with balanced brackets, the tokenizer returns
\* as many tokens as there are top-level separator-delimited segments.
C3_TokenCount_Original ==
    (tokOut # <<>> /\ Balanced(tokIn.s)) =>
        Len(tokOut[1]) = Len(Segments(tokIn.s, tokIn.separators))

\* C3 (amended): for a string with balanced brackets that contains a
\* separator, the tokens are the trimmed top-level segments that are not
\* blank, in order (so their number is the number of non-blank top-level
\* segments), and every separator inside a bracket pair is kept inside a
\* token; a string that contains no separator is returned whole, as one token.
C3_TokenCount ==
    (tokOut # <<>> /\ Balanced(tokIn.s)) =>
        IF HasSeparator(tokIn.s, tokIn.separators)
        THEN /\ tokOut[1] = TrimmedNonBlank(Segments(tokIn.s, tokIn.separators))
             /\ SumCountIn(tokOut[1], tokIn.separators)
                  = Cardinality(NestedSeparators(tokIn.s, tokIn.separators))
        ELSE tokOut[1] = <<tokIn.s>>

\* a balanced string with a separator inside corner brackets and one at top
\* level has been split in two
C3_Witness ==
    /\ tokOut # <<>>
    /\ Balanced(tokIn.s)
    /\ \E i \in NestedSeparators(tokIn.s, tokIn.separators) :
          \E j \in 1..(i - 1) : tokIn.s[j] = LB
    /\ TopLevelSeparators(tokIn.s, tokIn.separators) # {}
    /\ Len(tokOut[1]) = 2

\* C4: every token the tokenizer returns, for any string and separator list,
\* is trimmed of leading and trailing whitespace and is not empty.
C4_TokensTrimmedNonEmpty ==
    tokOut # <<>> =>
        \A i \in 1..Len(tokOut[1]) :
            tokOut[1][i] # <<>> /\ Strip(tokOut[1][i]) = tokOut[1][i]

-----------------------------------------------------------------------------
(* Regular expressions of clean_village_name and                           *)
(* extract_village_annotations                                             *)

Last(s) == s[Len(s)]

\* first position from i on that holds no whitespace (Len(s) + 1 if none)
RECURSIVE SkipWS(_, _)
SkipWS(s, i) == IF i <= Len(s) /\ s[i] \in WS THEN SkipWS(s, i + 1) ELSE i

\* re.sub(r'([CJK])\s+([CJK])', r'\1\2', v): matches are found left to
\* right and do not overlap, the second ideograph of a match is consumed
RECURSIVE CollapseCJKFrom(_, _)
CollapseCJKFrom(s, i) ==
    IF i > Len(s) THEN <<>>
    ELSE LET j == SkipWS(s, i + 1)
         IN  IF s[i] \in CJK /\ j > i + 1 /\ j <= Len(s) /\ s[j] \in CJK
             THEN <<s[i], s[j]>> \o CollapseCJKFrom(s, j + 1)
             ELSE <<s[i]>> \o CollapseCJKFrom(s, i + 1)

CollapseCJK(s) == CollapseCJKFrom(s, 1)

\* positions after i that hold the closing character c
ClosersAfter(s, i, c) == {j \in (i + 1)..Len(s) : s[j] = c}

\* re.sub(r'o[^c]*c', '', s) for an opening character o and closing c
RECURSIVE RemoveBracketedFrom(_, _, _, _)
RemoveBracketedFrom(s, i, o, c) ==
    IF i > Len(s) THEN <<>>
    ELSE IF s[i] = o /\ ClosersAfter(s, i, c) # {}
         THEN RemoveBracketedFrom(s, SetMin(ClosersAfter(s, i, c)) + 1, o, c)
         ELSE <<s[i]>> \o RemoveBracketedFrom(s, i + 1, o, c)

RemoveBracketed(s, o, c) == RemoveBracketedFrom(s, 1, o, c)

\* re.findall(r'o([^c]*)c', s)
RECURSIVE FindBracketedFrom(_, _, _, _)
FindBracketedFrom(s, i, o, c) ==
    IF i > Len(s) THEN <<>>
    ELSE IF s[i] = o /\ ClosersAfter(s, i, c) # {}
         THEN LET j == SetMin(ClosersAfter(s, i, c))
              IN  <<SubSeq(s, i + 1, j - 1)>> \o FindBracketedFrom(s, j + 1, o, c)
         ELSE FindBracketedFrom(s, i + 1, o, c)

FindBracketed(s, o, c) == FindBracketedFrom(s, 1, o, c)

\* re.sub(r'[(【\[].*$', '', v): '.' does not match a newline and '$'
\* matches at the end or before a final newline
StripHanging(s) ==
    LET starts == {i \in 1..Len(s) :
                     /\ s[i] \in Opening
                     /\ \A k \in (i + 1)..Len(s) : s[k] = NL => k = Len(s)}
    IN  IF starts = {} THEN s
        ELSE LET i == SetMin(starts)
             IN  SubSeq(s, 1, i - 1)
                 \o (IF Len(s) > i /\ Last(s) = NL THEN <<NL>> ELSE <<>>)

\* 'sep'.join(parts)
RECURSIVE Join(_, _)
Join(parts, sep) ==
    IF parts = <<>> THEN <<>>
    ELSE IF Len(parts) = 1 THEN parts[1]
    ELSE parts[1] \o <<sep>> \o Join(Tail(parts), sep)

-----------------------------------------------------------------------------
(* clean_village_name, is_valid_village (lines 157-195)                    *)

\* a plausible slip: the hanging-note rule of line 176 left out
clean_village_name_matched_only(v) ==
    LET v1 == CollapseCJK(v)
        v2 == RemoveBracketed(v1, LP, RP)
        v3 == RemoveBracketed(v2, LB, RB)
        v4 == RemoveBracketed(v3, LSQ, RSQ)
    IN  Strip(v4)

clean_village_name(v) ==
    LET v1 == CollapseCJK(v)
        v2 == RemoveBracketed(v1, LP, RP)
        v3 == RemoveBracketed(v2, LB, RB)
        v4 == RemoveBracketed(v3, LSQ, RSQ)
        v5 == StripHanging(v4)
    IN  Strip(v5)

is_valid_village(v) == v # <<>> /\ Last(v) \in {CUN, LI}

-----------------------------------------------------------------------------
(* extract_village_annotations (lines 198-248)                             *)

\* f"{county}|{township}|{base}"
NoteKey(county, township, base) == county \o <<"|">> \o township \o <<"|">> \o base

\* [n.strip() for n in notes if n.strip()]
RECURSIVE StripNotes(_)
StripNotes(notes) ==
    IF notes = <<>> THEN <<>>
    ELSE IF Strip(Head(notes)) = <<>> THEN StripNotes(Tail(notes))
    ELSE <<Strip(Head(notes))>> \o StripNotes(Tail(notes))

\* lines 224-232 for one token: its notes and its base
TokenNotes(tok0) ==
    LET tok == CollapseCJK(tok0)
    IN  StripNotes(FindBracketed(tok, LP, RP) \o FindBracketed(tok, LB, RB))

TokenBase(tok0) ==
    LET tok == CollapseCJK(tok0)
    IN  Strip(RemoveBracketed(RemoveBracketed(tok, LP, RP), LB, RB))

\* what lines 233-246 do with one token: "village", "place" or "dropped"
BaseOutcome(base) ==
    IF base = <<>> THEN "dropped"
    ELSE IF is_valid_village(base) THEN "village"
    ELSE IF Last(base) # RP THEN "place"
    ELSE "dropped"

TokenOutcome(tok) == BaseOutcome(TokenBase(tok))

\* the loop of lines 223-246 over the tokens still to do
RECURSIVE ExtractLoop(_, _, _, _, _, _)
ExtractLoop(tokens, county, township, dialect, village_notes, non_admin) ==
    IF tokens = <<>> THEN [village_notes |-> village_notes, non_admin |-> non_admin]
    ELSE LET tok == Head(tokens)
             all_notes == TokenNotes(tok)
             base == TokenBase(tok)
             key == NoteKey(county, township, base)
             new_note == Join(all_notes, DUN)
             existing == DictGet(village_notes, key, <<>>)
             merged == IF existing # <<>> THEN existing \o <<DUN>> \o new_note
                       ELSE new_note
             entry == IF all_notes # <<>>
                      THEN [county |-> county, township |-> township, name |-> base,
                            dialect |-> dialect, note |-> new_note]
                      ELSE [county |-> county, township |-> township, name |-> base,
                            dialect |-> dialect]
             outcome == BaseOutcome(base)
         IN  IF outcome = "village" /\ all_notes # <<>>
             THEN ExtractLoop(Tail(tokens), county, township, dialect,
                              (key :> merged) @@ village_notes, non_admin)
             ELSE IF outcome = "place"
             THEN ExtractLoop(Tail(tokens), county, township, dialect,
                              village_notes, Append(non_admin, entry))
             ELSE ExtractLoop(Tail(tokens), county, township, dialect,
                              village_notes, non_admin)

extract_village_annotations(raw_str, county, township, dialect) ==
    IF raw_str = <<>> THEN [village_notes |-> EmptyTable, non_admin |-> <<>>]
    ELSE ExtractLoop(split_aware_of_brackets(raw_str, AnnotSeparators),
                     county, township, dialect, EmptyTable, <<>>)

-----------------------------------------------------------------------------
(* split_multi (lines 251-270)                                             *)

InSeq(x, seq) == \E i \in 1..Len(seq) : seq[i] = x

\* the loop of lines 263-269
RECURSIVE SplitMultiLoop(_, _)
SplitMultiLoop(parts, cleaned) ==
    IF parts = <<>> THEN cleaned
    ELSE LET p == clean_village_name(Head(parts))
         IN  IF ~ is_valid_village(p) THEN SplitMultiLoop(Tail(parts), cleaned)
             ELSE IF InSeq(p, cleaned) THEN SplitMultiLoop(Tail(parts), cleaned)
             ELSE SplitMultiLoop(Tail(parts), Append(cleaned, p))

split_multi(str) ==
    LET s == norm_text(StrVal(str))
    IN  IF s = <<>> THEN <<>>
        ELSE SplitMultiLoop(split_aware_of_brackets(s, MultiSeparators), <<>>)

-----------------------------------------------------------------------------
(* df_to_records (lines 334-376)                                           *)

\* A row of df: one cell (None or a string) per logical field.  A record of
\* recs has the fields language, dialect, county, township for the source's
\* keys U+65CF U+8A9E, U+65B9 U+8A00 U+5225, U+7E23, U+9109 U+93AE U+5E02,
\* and villages for U+6751 U+91CC.

\* lines 345-353: the row is skipped when all five normalized cells are empty
RowSkipped(row) ==
    /\ norm_text(row.language) = <<>>
    /\ norm_text(row.dialect) = <<>>
    /\ norm_text(row.county) = <<>>
    /\ norm_text(row.township) = <<>>
    /\ ("village" \in colmap => norm_text(row.village) = <<>>)

\* the body of the loop for one row, with the township looked up under the
\* county as it was before the county rename (a plausible slip)
RowLocalsRenameLate(row) ==
    LET language == norm_text(row.language)
        dialect == norm_text(row.dialect)
        county == norm_text(row.county)
        township0 == norm_text(row.township)
        village_raw == IF "village" \in colmap THEN norm_text(row.village) ELSE <<>>
        old_county == IF is_blank(row.county) THEN <<>> ELSE norm_clean(row.county.s)
        township == IF old_county \in DOMAIN TOWNSHIP_NORMALIZATION
                    THEN DictGet(TOWNSHIP_NORMALIZATION[old_county], township0, township0)
                    ELSE township0
        base == [language |-> language, dialect |-> dialect,
                 county |-> county, township |-> township]
        extracted == extract_village_annotations(village_raw, county, township, dialect)
    IN  [skip |-> RowSkipped(row),
         rec |-> IF "village" \in colmap
                 THEN base @@ [villages |-> split_multi(village_raw)]
                 ELSE base,
         village_raw |-> village_raw,
         \* vn, na of line 370
         extracted |-> IF "village" \in colmap THEN extracted
                       ELSE [village_notes |-> EmptyTable, non_admin |-> <<>>]]

\* the body of the loop for one row, with the annotations keyed on the county
\* as the cell spells it (a plausible slip)
RowLocalsRawCountyKey(row) ==
    LET language == norm_text(row.language)
        dialect == norm_text(row.dialect)
        county == norm_text(row.county)
        township0 == norm_text(row.township)
        village_raw == IF "village" \in colmap THEN norm_text(row.village) ELSE <<>>
        old_county == IF is_blank(row.county) THEN <<>> ELSE norm_clean(row.county.s)
        township == IF county \in DOMAIN TOWNSHIP_NORMALIZATION
                    THEN DictGet(TOWNSHIP_NORMALIZATION[county], township0, township0)
                    ELSE township0
        base == [language |-> language, dialect |-> dialect,
                 county |-> county, township |-> township]
        extracted == extract_village_annotations(village_raw, old_county, township,
                                                 dialect)
    IN  [skip |-> RowSkipped(row),
         rec |-> IF "village" \in colmap
                 THEN base @@ [villages |-> split_multi(village_raw)]
                 ELSE base,
         village_raw |-> village_raw,
         extracted |-> IF "village" \in colmap THEN extracted
                       ELSE [village_notes |-> EmptyTable, non_admin |-> <<>>]]

\* the body of the loop for one row (lines 345-375): its locals
RowLocals(row) ==
    LET language == norm_text(row.language)
        dialect == norm_text(row.dialect)
        county == norm_text(row.county)
        township0 == norm_text(row.township)
        village_raw == IF "village" \in colmap THEN norm_text(row.village) ELSE <<>>
        township == IF county \in DOMAIN TOWNSHIP_NORMALIZATION
                    THEN DictGet(TOWNSHIP_NORMALIZATION[county], township0, township0)
                    ELSE township0
        base == [language |-> language, dialect |-> dialect,
                 county |-> county, township |-> township]
        extracted == extract_village_annotations(village_raw, county, township, dialect)
    IN  [skip |-> RowSkipped(row),
         rec |-> IF "village" \in colmap
                 THEN base @@ [villages |-> split_multi(village_raw)]
                 ELSE base,
         village_raw |-> village_raw,
         \* vn, na of line 370
         extracted |-> IF "village" \in colmap THEN extracted
                       ELSE [village_notes |-> EmptyTable, non_admin |-> <<>>]]

\* one iteration of the loop of line 344
ProcessRow(row) ==
    \E r \in {RowLocals(row)} :
        /\ df' = Append(df, row)
        /\ IF r.skip
           THEN UNCHANGED <<recs, all_village_notes, all_non_admin>>
           ELSE /\ recs' = Append(recs, r.rec)
                \* for k, v in vn.items(): all_village_notes[k] = v
                /\ all_village_notes' = r.extracted.village_notes @@ all_village_notes
                /\ all_non_admin' = all_non_admin \o r.extracted.non_admin
        /\ UNCHANGED <<tableVars, normVars, tokVars, colmap, dupVars, idxVars, mainVars, loadVars, statVars, colVars, tree_i>>

RequiredFields == {"language", "dialect", "county", "township"}

-----------------------------------------------------------------------------
(* SpecRec: df_to_records over a data frame of a few rows, under several   *)
(* reform tables                                                           *)

MaxRows == 2

CountyA == <<"tai">>
CountyB == <<"tai2">>
TownX == <<"jia">>
TownY == <<"yi">>
TownZ == <<"bing">>

RecNameTables ==
    { (CountyA :> CountyB),
      (CountyA :> CountyB) @@ (TownX :> TownZ) }

RecTownshipTables ==
    { EmptyTable,
      (CountyB :> (TownX :> TownY)),
      (CountyA :> (TownX :> TownY)) }

Village1 == <<"jia", "cun">>

RecCells ==
    { StrVal(Village1),
      StrVal(Village1 \o <<LP, "a", RP>>),
      StrVal(Village1 \o <<LP, "k", RP>>),
      StrVal(Village1 \o <<LP, "a", RP, DUN>> \o Village1 \o <<LP, "k", RP>>),
      StrVal(Village1 \o <<LP, "a", RP, DUN>> \o Village1 \o <<LP, "a", RP>>),
      StrVal(Village1 \o <<LB, "a", RB, LP, "k", RP>>),
      StrVal(Village1 \o <<",", "yi", "li", LP, "a", RP>>),
      NoneVal }

BlankRow == [language |-> NoneVal, dialect |-> NoneVal, county |-> NoneVal,
             township |-> NoneVal, village |-> NoneVal]

RecRows ==
    {BlankRow} \cup
    [language : {StrVal(<<"a">>)}, dialect : {StrVal(<<"k">>)},
     county : {StrVal(CountyA), StrVal(CountyB)},
     township : {StrVal(TownX), StrVal(TownY)},
     village : IF "village" \in colmap THEN RecCells ELSE {NoneVal}]

RecInit ==
    /\ NAME_NORMALIZATION \in RecNameTables
    /\ TOWNSHIP_NORMALIZATION \in RecTownshipTables
    /\ colmap \in {RequiredFields, RequiredFields \cup {"village"}}
    /\ df = <<>>
    /\ recs = <<>>
    /\ all_village_notes = EmptyTable
    /\ all_non_admin = <<>>
    /\ NormIdle
    /\ TokIdle
    /\ DupIdle
    /\ IdxIdle
    /\ MainIdle
    /\ LoadIdle
    /\ StatIdle
    /\ CollapseIdle
    /\ tree_i = 0

RecNext == Len(df) < MaxRows /\ \E row \in RecRows : ProcessRow(row)

SpecRec == RecInit /\ [][RecNext]_vars

\* the last row iterated, and whether it produced a record
LastRow == df[Len(df)]
LastRowKept == df # <<>> /\ ~ RowSkipped(LastRow)

\* C5 (as stated): with county rename A->B and township renames under B
\* holding X->Y, a row with county A and township X yields county B and
\* township Y; when the renamed county is no key of the township table, or
\* the township is no key under it, the township is left unchanged.
C5_ReformOrdering_Original ==
    LastRowKept =>
        LET A == LastRow.county.s
            X == LastRow.township.s
            B == DictGet(NAME_NORMALIZATION, A, A)
            rec == recs[Len(recs)]
        IN  /\ rec.county = B
            /\ IF B \in DOMAIN TOWNSHIP_NORMALIZATION
                  /\ X \in DOMAIN TOWNSHIP_NORMALIZATION[B]
               THEN rec.township = TOWNSHIP_NORMALIZATION[B][X]
               ELSE rec.township = X

\* C5 (amended): the record's county is the renamed county B = norm_text(A)
\* and the township lookup is keyed on B and on the normalized township
\* X' = norm_text(X): the township is the entry for X' under B when B is a
\* key of the township table and X' a key under it, and X' otherwise.  (X'
\* is X unless X is itself a key of the county-rename table.)
C5_ReformOrdering ==
    LastRowKept =>
        LET B == norm_text(LastRow.county)
            X == norm_text(LastRow.township)
            rec == recs[Len(recs)]
        IN  /\ rec.county = B
            /\ IF B \in DOMAIN TOWNSHIP_NORMALIZATION
                  /\ X \in DOMAIN TOWNSHIP_NORMALIZATION[B]
               THEN rec.township = TOWNSHIP_NORMALIZATION[B][X]
               ELSE rec.township = X

\* a row with the old county name and an old township name came out with
\* both renamed
C5_Witness ==
    /\ LastRowKept
    /\ LastRow.county = StrVal(CountyA)
    /\ LastRow.township = StrVal(TownX)
    /\ recs[Len(recs)].county = CountyB
    /\ recs[Len(recs)].township = TownY

\* The annotation fragments the rows of df attach to villages, as
\* <<key, fragment>> pairs in order of occurrence.
RECURSIVE TokenPairs(_, _, _)
TokenPairs(tokens, county, township) ==
    IF tokens = <<>> THEN <<>>
    ELSE LET tok == Head(tokens)
             key == NoteKey(county, township, TokenBase(tok))
             notes == TokenNotes(tok)
         IN  (IF TokenOutcome(tok) = "village"
              THEN [i \in 1..Len(notes) |-> <<key, notes[i]>>]
              ELSE <<>>)
             \o TokenPairs(Tail(tokens), county, township)

RowPairs(row) ==
    LET r == RowLocals(row)
    IN  IF r.skip \/ r.village_raw = <<>> THEN <<>>
        ELSE TokenPairs(split_aware_of_brackets(r.village_raw, AnnotSeparators),
                        r.rec.county, r.rec.township)

RECURSIVE FramePairs(_)
FramePairs(rows) ==
    IF rows = <<>> THEN <<>> ELSE RowPairs(Head(rows)) \o FramePairs(Tail(rows))

\* the fragments of one key, each once, in order of first occurrence
RECURSIVE DistinctFragments(_, _, _)
DistinctFragments(pairs, key, acc) ==
    IF pairs = <<>> THEN acc
    ELSE IF Head(pairs)[1] = key /\ ~ InSeq(Head(pairs)[2], acc)
         THEN DistinctFragments(Tail(pairs), key, Append(acc, Head(pairs)[2]))
         ELSE DistinctFragments(Tail(pairs), key, acc)

\* C6: after any sequence of rows, the annotation table holds, for each key
\* county|township|village, the distinct fragments attached to that village
\* over all rows, joined with U+3001 in first-insertion order, none repeated
\* and none lost.
C6_AnnotationsMerged ==
    LET pairs == FramePairs(df)
        keys == {pairs[i][1] : i \in 1..Len(pairs)}
    IN  /\ DOMAIN all_village_notes = keys
        /\ \A key \in keys :
              all_village_notes[key] = Join(DistinctFragments(pairs, key, <<>>), DUN)

-----------------------------------------------------------------------------
(* SpecCell: df_to_records on a data frame of one row, for every village   *)
(* cell up to a length                                                     *)

MaxCellLen == 4

CellAlphabet == {"jia", CUN, "a", SP, DUN, ",", LP, RP, LB, RB, LSQ, RSQ}

CellRows ==
    [language : {StrVal(<<"a">>)}, dialect : {StrVal(<<"k">>)},
     county : {StrVal(<<"tai", "dong", "xian">>)},
     township : {StrVal(TownX)},
     village : {StrVal(s) : s \in Strs(CellAlphabet, MaxCellLen)}]

CellInit ==
    /\ NAME_NORMALIZATION = BuiltinNameTable
    /\ TOWNSHIP_NORMALIZATION = EmptyTable
    /\ colmap = RequiredFields \cup {"village"}
    /\ df = <<>>
    /\ recs = <<>>
    /\ all_village_notes = EmptyTable
    /\ all_non_admin = <<>>
    /\ NormIdle
    /\ TokIdle
    /\ DupIdle
    /\ IdxIdle
    /\ MainIdle
    /\ LoadIdle
    /\ StatIdle
    /\ CollapseIdle
    /\ tree_i = 0

CellNext == df = <<>> /\ \E row \in CellRows : ProcessRow(row)

SpecCell == CellInit /\ [][CellNext]_vars

\* the tokens of the last row's village cell that split_multi and
\* extract_village_annotations both see
CellTokens ==
    LET raw == RowLocals(LastRow).village_raw
        forNotes == split_aware_of_brackets(raw, AnnotSeparators)
        forNames == split_aware_of_brackets(norm_text(StrVal(raw)), MultiSeparators)
    IN  {forNotes[i] : i \in 1..Len(forNotes)} \cap {forNames[i] : i \in 1..Len(forNames)}

\* the token's name is among the record's villages
IsVillageName(tok) == InSeq(clean_village_name(tok), recs[Len(recs)].villages)

\* the token's name is among the non-admin places
IsPlaceName(tok) ==
    \E i \in 1..Len(all_non_admin) : all_non_admin[i].name = TokenBase(tok)

\* C1: every non-empty token of a village cell gets exactly one outcome among
\* VillageName, PlaceName and dropped: it is never both a VillageName of the
\* record and a PlaceName of the non-admin list, and it is dropped exactly
\* when its bracket-stripped base (well-formed brackets and hanging note
\* removed) is empty or ends with a closing parenthesis.
C1_ClassifierTotality ==
    (LastRowKept /\ RowLocals(LastRow).village_raw # <<>>) =>
        \A tok \in CellTokens :
            tok # <<>> =>
                LET base == clean_village_name(tok)
                    dropped == ~ IsVillageName(tok) /\ ~ IsPlaceName(tok)
                IN  /\ ~ (IsVillageName(tok) /\ IsPlaceName(tok))
                    /\ dropped <=> (base = <<>> \/ Last(base) = RP)

-----------------------------------------------------------------------------
(* make_admin_tree_and_duplicates.py: text helpers of the duplicate report *)

\* NAME_NORMALIZATION of make_admin_tree_and_duplicates.py (a literal)
TREE_NAME_NORMALIZATION ==
    [key \in {<<"tai", "bei", "shi">>, <<"tai", "zhong", "shi">>,
              <<"tai", "nan2", "shi">>, <<"tai", "dong", "xian">>} |->
        <<"tai2">> \o Tail(key)]

\* norm_text of make_admin_tree_and_duplicates.py
tree_norm_text(x) == norm_text_with(TREE_NAME_NORMALIZATION, x)

\* re.split(r"[\n,;/]+", s): the parts between runs of separator characters
RECURSIVE ReSplitFrom(_, _, _, _)
ReSplitFrom(s, i, current, res) ==
    IF i > Len(s) THEN Append(res, current)
    ELSE IF s[i] \in {NL, ",", ";", "/"}
         THEN IF i > 1 /\ s[i - 1] \in {NL, ",", ";", "/"}
              THEN ReSplitFrom(s, i + 1, current, res)
              ELSE ReSplitFrom(s, i + 1, <<>>, Append(res, current))
         ELSE ReSplitFrom(s, i + 1, Append(current, s[i]), res)

\* [p.strip() for p in parts if p.strip()]
RECURSIVE StripNonBlank(_)
StripNonBlank(parts) ==
    IF parts = <<>> THEN <<>>
    ELSE LET p == Strip(Head(parts))
         IN  (IF p = <<>> THEN <<>> ELSE <<p>>) \o StripNonBlank(Tail(parts))

\* split_multi of make_admin_tree_and_duplicates.py
tree_split_multi(str) ==
    LET s == tree_norm_text(StrVal(str))
    IN  IF s = <<>> THEN <<>> ELSE StripNonBlank(ReSplitFrom(s, 1, <<>>, <<>>))

\* collections.Counter, in insertion order: a sequence of [key, n]
CounterGet(ct, key) ==
    IF \E i \in 1..Len(ct) : ct[i].key = key
    THEN ct[CHOOSE i \in 1..Len(ct) : ct[i].key = key].n
    ELSE 0

\* ct[key] += 1
CounterInc(ct, key) ==
    IF \E i \in 1..Len(ct) : ct[i].key = key
    THEN [i \in 1..Len(ct) |->
            IF ct[i].key = key THEN [ct[i] EXCEPT !.n = @ + 1] ELSE ct[i]]
    ELSE Append(ct, [key |-> key, n |-> 1])

-----------------------------------------------------------------------------
(* build_tree_and_dupes and write_duplicates_csv                           *)

\* a plausible slip: the dialect left out of the full-row key
FullKeyNoDialect(lang, dia, county, town, v) == <<lang, <<>>, county, town, v>>

\* the key of fullrow_ct (line 147)
FullKey(lang, dia, county, town, v) == <<lang, dia, county, town, v>>

\* villages of one row (lines 137-138)
RowVillages(row) ==
    LET villages_raw == tree_norm_text(row.village)
        villages == tree_split_multi(villages_raw)
    IN  IF villages # <<>> THEN villages
        ELSE IF villages_raw = <<>> THEN <<>> ELSE <<villages_raw>>

\* lang and dia of one row (lines 140-141)
RowLang(row) == IF "language" \in colmap THEN tree_norm_text(row.language) ELSE <<>>
RowDia(row) == IF "dialect" \in colmap THEN tree_norm_text(row.dialect) ELSE <<>>

\* tree[county][town].append(v) on the nested defaultdict
TreeAppend(tr, county, town, v) ==
    LET towns == DictGet(tr, county, EmptyTable)
        lst == DictGet(towns, town, <<>>)
    IN  (county :> ((town :> Append(lst, v)) @@ towns)) @@ tr

\* the loop over the villages of one row (lines 143-151)
RECURSIVE VillageLoop(_, _, _, _, _, _)
VillageLoop(villages, lang, dia, county, town, st) ==
    IF villages = <<>> THEN st
    ELSE LET v == Head(villages)
             seen == DictGet(st.seen_village, <<county, town>>, {})
             counted ==
                 [st EXCEPT
                    !.triple_ct = CounterInc(@, <<county, town, v>>),
                    !.fullrow_ct = CounterInc(@, FullKey(lang, dia, county, town, v)),
                    !.seen_village = (<<county, town>> :> (seen \cup {v})) @@ @,
                    !.tree = IF v \in seen THEN @ ELSE TreeAppend(@, county, town, v)]
         IN  VillageLoop(Tail(villages), lang, dia, county, town,
                         IF v = <<>> THEN st ELSE counted)

\* one iteration of the loop over df.iterrows() (lines 129-151)
TreeRow(row) ==
    LET county == tree_norm_text(row.county)
        town == tree_norm_text(row.township)
    IN  /\ dup_csv = <<>>
        /\ df' = Append(df, row)
        /\ IF county = <<>> \/ town = <<>>
           THEN UNCHANGED <<tree, seen_village, pair_ct, triple_ct, fullrow_ct>>
           ELSE \E st \in {VillageLoop(RowVillages(row), RowLang(row), RowDia(row),
                                       county, town,
                                       [tree |-> tree, seen_village |-> seen_village,
                                        triple_ct |-> triple_ct,
                                        fullrow_ct |-> fullrow_ct])} :
                    /\ pair_ct' = CounterInc(pair_ct, <<county, town>>)
                    /\ tree' = st.tree
                    /\ seen_village' = st.seen_village
                    /\ triple_ct' = st.triple_ct
                    /\ fullrow_ct' = st.fullrow_ct
        /\ UNCHANGED <<tableVars, normVars, tokVars, colmap, recs,
                       all_village_notes, all_non_admin, dup_csv, idxVars, mainVars, loadVars, statVars, colVars, tree_i>>

\* one row of the duplicates CSV (lines 195-205): type, count, then the key's
\* county, township, village, language and dialect ("" where the key has none)
CsvRow(kind, n, key) ==
    IF Len(key) = 2
    THEN [type |-> kind, count |-> n, county |-> key[1], township |-> key[2],
          village |-> <<>>, language |-> <<>>, dialect |-> <<>>]
    ELSE IF Len(key) = 3
    THEN [type |-> kind, count |-> n, county |-> key[1], township |-> key[2],
          village |-> key[3], language |-> <<>>, dialect |-> <<>>]
    ELSE [type |-> kind, count |-> n, county |-> key[3], township |-> key[4],
          village |-> key[5], language |-> key[1], dialect |-> key[2]]

\* the rows write_duplicates_csv writes for one counter
RECURSIVE DupRows(_, _)
DupRows(ct, kind) ==
    IF ct = <<>> THEN <<>>
    ELSE (IF Head(ct).n > 1 THEN <<CsvRow(kind, Head(ct).n, Head(ct).key)>> ELSE <<>>)
         \o DupRows(Tail(ct), kind)

\* the header row (line 193)
CsvHeader ==
    [type |-> "type", count |-> "count", county |-> <<"xian">>,
     township |-> <<"xiang", "zhen", "shi">>, village |-> <<CUN, LI>>,
     language |-> <<"zu", "yu">>, dialect |-> <<"fang", "yan", "bie">>]

\* write_duplicates_csv: the header row, then the findings of the three counters
WriteDuplicates ==
    /\ dup_csv = <<>>
    /\ dup_csv' = <<CsvHeader>> \o DupRows(pair_ct, "dup_county_township")
                      \o DupRows(triple_ct, "dup_county_township_village")
                      \o DupRows(fullrow_ct, "dup_full_row")
    /\ UNCHANGED <<tableVars, normVars, tokVars, recVars,
                   tree, seen_village, pair_ct, triple_ct, fullrow_ct, idxVars, mainVars, loadVars, statVars, colVars, tree_i>>

-----------------------------------------------------------------------------
(* SpecDup: build_tree_and_dupes over every frame of up to MaxDupRows rows, *)
(* then write_duplicates_csv                                                *)

MaxDupRows == 3

VillageA == <<"jia", CUN>>
VillageB == <<"yi", CUN>>

\* village cells: one village; a village twice and another one; a cell of
\* DUN-separated villages; a cell of separators only; a blank cell
DupCells ==
    {StrVal(VillageA),
     StrVal(VillageA \o <<",">> \o VillageA \o <<"/", SP>> \o VillageB),
     StrVal(VillageA \o <<DUN>> \o VillageB),
     StrVal(<<";">>),
     NoneVal}

\* rows of a frame whose header maps the columns of colmap; one row has the
\* county in the spelling the table renames, one lacks the township
DupRowSet ==
    LET langs == IF "language" \in colmap THEN {StrVal(<<"a">>)} ELSE {NoneVal}
        dias == IF "dialect" \in colmap THEN {StrVal(<<"k">>), StrVal(<<"n">>)}
                ELSE {NoneVal}
    IN  [language : langs, dialect : dias,
         county : {StrVal(<<"tai2", "dong", "xian">>)},
         township : {StrVal(TownX)}, village : DupCells]
        \cup [language : langs, dialect : {CHOOSE d \in dias : TRUE},
              county : {StrVal(<<"tai", "dong", "xian">>)},
              township : {StrVal(TownX), NoneVal}, village : {StrVal(VillageA)}]
        \cup {BlankRow}

DupInit ==
    /\ NAME_NORMALIZATION = EmptyTable
    /\ TOWNSHIP_NORMALIZATION = EmptyTable
    /\ colmap \in {{"county", "township", "village"},
                   {"county", "township", "village", "language", "dialect"}}
    /\ df = <<>>
    /\ recs = <<>>
    /\ all_village_notes = <<>>
    /\ all_non_admin = <<>>
    /\ DupIdle
    /\ IdxIdle
    /\ MainIdle
    /\ LoadIdle
    /\ StatIdle
    /\ CollapseIdle
    /\ tree_i = 0
    /\ NormIdle
    /\ TokIdle

DupNext ==
    \/ Len(df) < MaxDupRows /\ dup_csv = <<>> /\ \E row \in DupRowSet : TreeRow(row)
    \/ WriteDuplicates

SpecDup == DupInit /\ [][DupNext]_vars

\* the rows of the frame that carry a county and a township
CountedRows ==
    {i \in 1..Len(df) : tree_norm_text(df[i].county) # <<>>
                        /\ tree_norm_text(df[i].township) # <<>>}

\* the village occurrences of the frame, each with its five fields: language,
\* dialect, county, township, village
RECURSIVE OccurrencesFrom(_)
OccurrencesFrom(i) ==
    IF i > Len(df) THEN <<>>
    ELSE IF i \notin CountedRows THEN OccurrencesFrom(i + 1)
    ELSE LET vs == RowVillages(df[i])
             row == <<RowLang(df[i]), RowDia(df[i]), tree_norm_text(df[i].county),
                      tree_norm_text(df[i].township)>>
         IN  [j \in 1..Len(vs) |-> Append(row, vs[j])] \o OccurrencesFrom(i + 1)

\* the (county, township) of the counted rows, one per row
RECURSIVE PairsFrom(_)
PairsFrom(i) ==
    IF i > Len(df) THEN <<>>
    ELSE IF i \notin CountedRows THEN PairsFrom(i + 1)
    ELSE <<<<tree_norm_text(df[i].county), tree_norm_text(df[i].township)>>>>
         \o PairsFrom(i + 1)

TripleOf(f) == SubSeq(f, 3, 5)
SameOf(f) == f

CounterKeys(ct) == {ct[i].key : i \in 1..Len(ct)}

\* the number of elements of occ that carry key k
Carrying(occ, KeyOf(_), k) == Cardinality({i \in 1..Len(occ) : KeyOf(occ[i]) = k})

\* the counter holds, for every key, the number of elements of occ carrying it
CountsExactly(ct, occ, KeyOf(_)) ==
    /\ \A i, j \in 1..Len(ct) : ct[i].key = ct[j].key => i = j
    /\ \A k \in CounterKeys(ct) \cup {KeyOf(occ[i]) : i \in 1..Len(occ)} :
          CounterGet(ct, k) = Carrying(occ, KeyOf, k)

\* the findings of one kind in the written CSV are the keys carried by more
\* than one element of occ, each once, with that number as count
FindingsExactly(kind, occ, KeyOf(_), RowKey(_)) ==
    LET found == {i \in 2..Len(dup_csv) : dup_csv[i].type = kind}
    IN  /\ \A i \in found :
              /\ dup_csv[i].count = Carrying(occ, KeyOf, RowKey(dup_csv[i]))
              /\ \A j \in found : RowKey(dup_csv[j]) = RowKey(dup_csv[i]) => i = j
        /\ \A o \in 1..Len(occ) :
              (\E i \in found : RowKey(dup_csv[i]) = KeyOf(occ[o]))
                  <=> Carrying(occ, KeyOf, KeyOf(occ[o])) > 1

-----------------------------------------------------------------------------
(* build_area_index                                                        *)

\* a plausible slip: the entry appended without the membership test
AreaIndexStepNoDedup(ix, r) ==
    IF r.county = <<>> \/ r.township = <<>> \/ r.language = <<>> \/ r.dialect = <<>>
    THEN ix
    ELSE LET towns == DictGet(ix, r.county, EmptyTable)
             lst == DictGet(towns, r.township, <<>>)
             entry == [language |-> r.language, dialect |-> r.dialect]
         IN  (r.county :> ((r.township :> Append(lst, entry)) @@ towns)) @@ ix

\* one iteration of the loop over the records (lines 389-400)
AreaIndexStep(ix, r) ==
    IF r.county = <<>> \/ r.township = <<>> \/ r.language = <<>> \/ r.dialect = <<>>
    THEN ix
    ELSE LET towns == DictGet(ix, r.county, EmptyTable)
             lst == DictGet(towns, r.township, <<>>)
             entry == [language |-> r.language, dialect |-> r.dialect]
         IN  (r.county :> ((r.township :>
                              IF InSeq(entry, lst) THEN lst ELSE Append(lst, entry))
                           @@ towns)) @@ ix

\* build_area_index(records)
RECURSIVE AreaIndexFrom(_, _)
AreaIndexFrom(ix, records) ==
    IF records = <<>> THEN ix
    ELSE AreaIndexFrom(AreaIndexStep(ix, Head(records)), Tail(records))

build_area_index(records) == AreaIndexFrom(EmptyTable, records)

-----------------------------------------------------------------------------
(* SpecIdx: build_area_index over every record list of up to MaxIdxRecs     *)
(* records                                                                 *)

MaxIdxRecs == 3

\* records as df_to_records builds them: complete ones over two languages and
\* two townships, one that also has villages, and ones lacking a field
IdxRecords ==
    [language : {<<"a">>, <<"b">>}, dialect : {<<"k">>},
     county : {CountyA}, township : {TownX, TownY}]
    \cup {[language |-> <<"a">>, dialect |-> <<"k">>, county |-> CountyA,
           township |-> TownX, villages |-> <<VillageA>>],
          [language |-> <<>>, dialect |-> <<"k">>, county |-> CountyA,
           township |-> TownX],
          [language |-> <<"b">>, dialect |-> <<>>, county |-> CountyA,
           township |-> TownY],
          [language |-> <<"a">>, dialect |-> <<"n">>, county |-> <<>>,
           township |-> TownX],
          [language |-> <<"a">>, dialect |-> <<"n">>, county |-> CountyA,
           township |-> <<>>]}

IdxInit ==
    /\ NAME_NORMALIZATION = EmptyTable
    /\ TOWNSHIP_NORMALIZATION = EmptyTable
    /\ colmap = {}
    /\ df = <<>>
    /\ recs \in UNION {[1..n -> IdxRecords] : n \in 0..MaxIdxRecs}
    /\ all_village_notes = <<>>
    /\ all_non_admin = <<>>
    /\ idx = EmptyTable
    /\ idx_i = 0
    /\ NormIdle
    /\ TokIdle
    /\ DupIdle
    /\ MainIdle
    /\ LoadIdle
    /\ StatIdle
    /\ CollapseIdle
    /\ tree_i = 0

\* one iteration of the loop of build_area_index
AreaIndexIter ==
    /\ idx_i < Len(recs)
    /\ idx' = AreaIndexStep(idx, recs[idx_i + 1])
    /\ idx_i' = idx_i + 1
    /\ UNCHANGED <<tableVars, normVars, tokVars, recVars, dupVars, mainVars, loadVars, statVars, colVars, tree_i>>

IdxNext == AreaIndexIter

SpecIdx == IdxInit /\ [][IdxNext]_vars

\* the records the loop has visited
Visited == SubSeq(recs, 1, idx_i)

\* the (county, township) keys of an index
IndexKeys(ix) == UNION {{<<c, t>> : t \in DOMAIN ix[c]} : c \in DOMAIN ix}

\* the (language, dialect) pairs an index lists under a key
PairsUnder(ix, k) ==
    IF k \in IndexKeys(ix)
    THEN {ix[k[1]][k[2]][i] : i \in 1..Len(ix[k[1]][k[2]])}
    ELSE {}

\* the orderings of a record list
Orderings(records) ==
    {[i \in 1..Len(records) |-> records[p[i]]] :
        p \in {q \in [1..Len(records) -> 1..Len(records)] :
                  \A i, j \in 1..Len(records) : q[i] = q[j] => i = j}}

\* the record has a language, a dialect, a county and a township
Complete(r) ==
    r.county # <<>> /\ r.township # <<>> /\ r.language # <<>> /\ r.dialect # <<>>

Carries(r, k, e) ==
    <<r.county, r.township>> = k /\ r.language = e.language /\ r.dialect = e.dialect

\* the same keys and, under each key, the same set of pairs
SameContent(ix, iy) ==
    /\ IndexKeys(ix) = IndexKeys(iy)
    /\ \A k \in IndexKeys(ix) : PairsUnder(ix, k) = PairsUnder(iy, k)

\* no pair twice under a key
NoPairTwice(ix) ==
    \A k \in IndexKeys(ix) :
        \A i, j \in 1..Len(ix[k[1]][k[2]]) :
            ix[k[1]][k[2]][i] = ix[k[1]][k[2]][j] => i = j

\* the position of the first visited complete record that carries e under k
FirstSeen(k, e) ==
    SetMin({i \in 1..idx_i : Complete(recs[i]) /\ Carries(recs[i], k, e)})

\* every list of the index is in first-seen order
FirstSeenOrder ==
    \A k \in IndexKeys(idx) :
        \A i, j \in 1..Len(idx[k[1]][k[2]]) :
            i < j => FirstSeen(k, idx[k[1]][k[2]][i]) < FirstSeen(k, idx[k[1]][k[2]][j])

\* C8 as stated: every ordering of the records gives the same keys and the
\* same set of pairs under each key, no pair is listed twice under a key, the
\* lists are in first-seen order, and a pair is listed under (county,
\* township) exactly when some record carries that language, dialect, county
\* and township.
C8_IndexDeterminism_Original ==
    /\ \A perm \in Orderings(Visited) : SameContent(build_area_index(perm), idx)
    /\ NoPairTwice(idx)
    /\ FirstSeenOrder
    /\ \A k \in IndexKeys(idx) : \A e \in PairsUnder(idx, k) :
          \E i \in 1..idx_i : Carries(recs[i], k, e)
    /\ \A i \in 1..idx_i :
          [language |-> recs[i].language, dialect |-> recs[i].dialect]
              \in PairsUnder(idx, <<recs[i].county, recs[i].township>>)

\* C8: every ordering of the records gives the same keys and the same set of
\* pairs under each key, no pair is listed twice under a key, the lists are in
\* first-seen order, and a pair is listed under (county, township) exactly
\* when some record whose language, dialect, county and township are all
\* non-empty carries it; a record lacking one of the four is not indexed.
C8_IndexDeterminism ==
    /\ \A perm \in Orderings(Visited) : SameContent(build_area_index(perm), idx)
    /\ NoPairTwice(idx)
    /\ FirstSeenOrder
    /\ \A k \in IndexKeys(idx) : \A e \in PairsUnder(idx, k) :
          \E i \in 1..idx_i : Complete(recs[i]) /\ Carries(recs[i], k, e)
    /\ \A i \in 1..idx_i :
          [language |-> recs[i].language, dialect |-> recs[i].dialect]
              \in PairsUnder(idx, <<recs[i].county, recs[i].township>>)
          <=> Complete(recs[i])

\* the loop is over; a key lists two pairs, another ordering of the records
\* lists them the other way round, and a record lacking a field was visited
C8_Witness ==
    /\ idx_i = Len(recs)
    /\ \E k \in IndexKeys(idx) :
          /\ Len(idx[k[1]][k[2]]) = 2
          /\ \E perm \in Orderings(recs) :
                build_area_index(perm)[k[1]][k[2]]
                    = <<idx[k[1]][k[2]][2], idx[k[1]][k[2]][1]>>
    /\ \E i \in 1..idx_i : ~ Complete(recs[i])

-----------------------------------------------------------------------------
(* SpecMain: the loops over the input files of the two main() functions    *)

MaxFiles == 3

\* how the processing of a file goes: "ok" maps and converts; "nomap" has a
\* header detect_map cannot map; "corrupt" makes read_first_sheet raise;
\* "badcell" raises after the sheet is read
FileKinds == {"ok", "nomap", "corrupt", "badcell"}

MainInit ==
    /\ tool \in {"convert", "tree"}
    /\ files \in UNION {[1..n -> FileKinds] : n \in 0..MaxFiles}
    /\ file_i = 0
    /\ outcomes = <<>>
    /\ run = "running"
    /\ NAME_NORMALIZATION = EmptyTable
    /\ TOWNSHIP_NORMALIZATION = EmptyTable
    /\ NormIdle
    /\ TokIdle
    /\ RecIdle
    /\ DupIdle
    /\ IdxIdle
    /\ LoadIdle
    /\ StatIdle
    /\ CollapseIdle
    /\ tree_i = 0

\* convert_xlsx_to_json.main, one iteration of the loop of lines 684-688:
\* convert_one in a try whose except Exception prints [FAIL]
ConvertFile ==
    /\ tool = "convert" /\ run = "running" /\ file_i < Len(files)
    /\ file_i' = file_i + 1
    /\ outcomes' = Append(outcomes,
                          CASE files[file_i + 1] = "ok" -> "wrote bundle"
                            [] files[file_i + 1] = "nomap" -> "wrote raw_preview"
                            [] OTHER -> "FAIL")
    /\ UNCHANGED <<tableVars, normVars, tokVars, recVars, dupVars, idxVars,
                   tool, files, run, loadVars, statVars, colVars, tree_i>>

\* convert_xlsx_to_json.main, line 690
ConvertDone ==
    /\ tool = "convert" /\ run = "running" /\ file_i = Len(files)
    /\ run' = "done"
    /\ UNCHANGED <<tableVars, normVars, tokVars, recVars, dupVars, idxVars,
                   tool, files, file_i, outcomes, loadVars, statVars, colVars, tree_i>>

\* make_admin_tree_and_duplicates.main, one iteration of the loop of lines
\* 216-234: no try; an unmappable header prints [WARN] and continues, an
\* exception leaves main
TreeFile ==
    /\ tool = "tree" /\ run = "running" /\ file_i < Len(files)
    /\ IF files[file_i + 1] \in {"corrupt", "badcell"}
       THEN /\ run' = "aborted"
            /\ UNCHANGED <<file_i, outcomes>>
       ELSE /\ file_i' = file_i + 1
            /\ outcomes' = Append(outcomes,
                                  IF files[file_i + 1] = "ok"
                                  THEN "wrote tree and duplicates" ELSE "WARN")
            /\ UNCHANGED run
    /\ UNCHANGED <<tableVars, normVars, tokVars, recVars, dupVars, idxVars,
                   tool, files, loadVars, statVars, colVars, tree_i>>

\* make_admin_tree_and_duplicates.main, line 236
TreeDone ==
    /\ tool = "tree" /\ run = "running" /\ file_i = Len(files)
    /\ run' = "done"
    /\ UNCHANGED <<tableVars, normVars, tokVars, recVars, dupVars, idxVars,
                   tool, files, file_i, outcomes, loadVars, statVars, colVars, tree_i>>

MainNext == ConvertFile \/ ConvertDone \/ TreeFile \/ TreeDone

\* a started main() keeps running until it returns or an exception leaves it
SpecMain == MainInit /\ [][MainNext]_vars /\ WF_vars(MainNext)

\* C9: in both driver loops a failure while processing one file, or an
\* unmappable header, stops at the file boundary: every file of the list is
\* eventually taken and the run eventually prints Done.
C9_FailureIsolation == <>(run = "done" /\ file_i = Len(files))

\* the loop of convert_xlsx_to_json.main alone does isolate failures
ConvertIsolatesFailures == (tool = "convert") => <>(run = "done" /\ file_i = Len(files))

-----------------------------------------------------------------------------
(* _load_name_normalization and _load_township_normalization               *)

\* JSON values as json.loads returns them; the keys of a dict are TLA+
\* strings for the field names of the file's schema and texts for names
JNull == [j |-> "null"]
JStr(s) == [j |-> "str", s |-> s]
JList(items) == [j |-> "list", items |-> items]
JDict(d) == [j |-> "dict", d |-> d]

\* the outcome of a Python expression: a value, or an exception raised
Value(v) == [exc |-> FALSE, val |-> v]
Raised == [exc |-> TRUE]

\* x.get(key, default): AttributeError unless x is a dict
PyGet(x, key, default) ==
    IF x.j = "dict" THEN Value(DictGet(x.d, key, default)) ELSE Raised

\* for item in x: the items of a list, the characters of a str, the keys
\* of a dict (both strings); TypeError for None
PyIter(x) ==
    IF x.j = "list" THEN Value(x.items)
    ELSE IF x.j = "str" THEN Value([i \in 1..Len(x.s) |-> JStr(<<x.s[i]>>)])
    ELSE IF x.j = "dict" THEN Value([i \in 1..Cardinality(DOMAIN x.d) |-> JStr(<<>>)])
    ELSE Raised

\* bool(x)
Truthy(x) ==
    CASE x.j = "null" -> FALSE
      [] x.j = "str" -> x.s # <<>>
      [] x.j = "list" -> x.items # <<>>
      [] x.j = "dict" -> DOMAIN x.d # {}

\* a str as the text the tables hold; any other value as it is
Stored(x) == IF x.j = "str" THEN x.s ELSE x

\* the loop of lines 48-51 over the mappings of one reform
RECURSIVE MappingsLoop(_, _)
MappingsLoop(ms, mapping) ==
    IF ms = <<>> THEN Value(mapping)
    ELSE LET old == PyGet(Head(ms), "old", JStr(<<>>))
             new == PyGet(Head(ms), "new", JStr(<<>>))
         IN  IF old.exc THEN Raised
             ELSE IF ~ (Truthy(old.val) /\ Truthy(new.val))
                  THEN MappingsLoop(Tail(ms), mapping)
             \* mapping[old] = new: TypeError for an unhashable key
             ELSE IF old.val.j \in {"list", "dict"} THEN Raised
             ELSE MappingsLoop(Tail(ms),
                               (Stored(old.val) :> Stored(new.val)) @@ mapping)

\* the loop of lines 47-51 over the reforms
RECURSIVE ReformsLoop(_, _)
ReformsLoop(reforms, mapping) ==
    IF reforms = <<>> THEN Value(mapping)
    ELSE LET got == PyGet(Head(reforms), "mappings", JList(<<>>))
             ms == IF got.exc THEN Raised ELSE PyIter(got.val)
             inner == IF ms.exc THEN Raised ELSE MappingsLoop(ms.val, mapping)
         IN  IF inner.exc THEN Raised ELSE ReformsLoop(Tail(reforms), inner.val)

\* the body of the try of lines 45-53
NameMapping(cfg) ==
    IF cfg.k # "parsed" THEN Raised
    ELSE LET got == PyGet(cfg.doc, "reforms", JList(<<>>))
             reforms == IF got.exc THEN Raised ELSE PyIter(got.val)
         IN  IF reforms.exc THEN Raised ELSE ReformsLoop(reforms.val, EmptyTable)

\* a plausible slip: the fallback taken without the [WARN] line
load_name_normalization_silent(cfg) ==
    IF cfg.k # "absent" /\ ~ NameMapping(cfg).exc
    THEN [table |-> NameMapping(cfg).val, log |-> <<"INFO names">>]
    ELSE [table |-> BuiltinNameTable, log |-> <<>>]

\* _load_name_normalization: the table returned and the lines printed
load_name_normalization(cfg) ==
    IF cfg.k = "absent" THEN [table |-> BuiltinNameTable, log |-> <<>>]
    ELSE IF NameMapping(cfg).exc
         THEN [table |-> BuiltinNameTable, log |-> <<"WARN names">>]
         ELSE [table |-> NameMapping(cfg).val, log |-> <<"INFO names">>]

\* the body of the try of lines 80-88
TownshipResult(cfg) ==
    IF cfg.k # "parsed" THEN Raised
    ELSE LET raw == PyGet(cfg.doc, "township_renames", JDict(EmptyTable))
         IN  IF raw.exc THEN Raised
             \* raw.items(): AttributeError unless raw is a dict
             ELSE IF raw.val.j # "dict" THEN Raised
             ELSE LET kept == {county \in DOMAIN raw.val.d :
                                  /\ ~ (county # <<>> /\ Head(county) = "_")
                                  /\ raw.val.d[county].j = "dict"}
                  IN  Value([county \in kept |->
                               LET v == raw.val.d[county].d
                               IN  [k \in {n \in DOMAIN v : ~ (n # <<>> /\ Head(n) = "_")}
                                      |-> Stored(v[k])]])

\* _load_township_normalization: the table returned and the lines printed
load_township_normalization(cfg) ==
    IF cfg.k = "absent" THEN [table |-> EmptyTable, log |-> <<>>]
    ELSE IF TownshipResult(cfg).exc
         THEN [table |-> EmptyTable, log |-> <<"WARN townships">>]
         ELSE [table |-> TownshipResult(cfg).val, log |-> <<"INFO townships">>]

-----------------------------------------------------------------------------
(* SpecLoad: the two loaders at module start-up (lines 72 and 94), for     *)
(* every state of raw/county_reforms.json                                  *)

MaxMappings == 1
MaxReforms == 2

SeqsUpTo(S, n) == UNION {[1..m -> S] : m \in 0..n}

\* entries of a "mappings" list: not a dict; two renames of the same name;
\* a list as the old name; no new name
MappingEntries ==
    {JStr(<<"x">>),
     JDict([old |-> JStr(CountyA), new |-> JStr(CountyB)]),
     JDict([old |-> JStr(CountyA), new |-> JStr(TownZ)]),
     JDict([old |-> JList(<<JStr(CountyA)>>), new |-> JStr(CountyB)]),
     JDict([old |-> JStr(CountyA)])}

\* entries of the "reforms" list
ReformEntries ==
    {JStr(<<"x">>), JDict(EmptyTable), JDict([mappings |-> JNull])}
    \cup {JDict([mappings |-> JList(ms)]) : ms \in SeqsUpTo(MappingEntries, MaxMappings)}

NoSection == [j |-> "missing"]

ReformsSections ==
    {JNull, JStr(<<>>), JDict(EmptyTable)}
    \cup {JList(rs) : rs \in SeqsUpTo(ReformEntries, MaxReforms)}

GoodTownships == JDict(CountyB :> JDict(TownX :> JStr(TownY)))

TownshipSections ==
    {JList(<<>>), JDict(EmptyTable), JDict(CountyB :> JStr(<<"x">>)), GoodTownships,
     JDict((<<"_", "c">> :> JDict(TownX :> JStr(TownY)))
           @@ (CountyB :> JDict((<<"_", "k">> :> JStr(TownY))
                               @@ (TownX :> JStr(TownY)))))}

\* the top-level dict with the sections given
Doc(reforms, townships) ==
    JDict([k \in (IF reforms = NoSection THEN {} ELSE {"reforms"})
                   \cup (IF townships = NoSection THEN {} ELSE {"township_renames"})
             |-> IF k = "reforms" THEN reforms ELSE townships])

GoodReforms ==
    JList(<<JDict([mappings |->
                     JList(<<JDict([old |-> JStr(CountyA), new |-> JStr(CountyB)])>>)])>>)

Docs ==
    {JNull, JList(<<>>), JStr(<<"x">>)}
    \cup {Doc(r, NoSection) : r \in ReformsSections \cup {NoSection}}
    \cup {Doc(NoSection, tw) : tw \in TownshipSections}
    \cup {Doc(r, tw) : r \in {JNull, GoodReforms},
                       tw \in {JList(<<>>), GoodTownships}}

Configs ==
    {[k |-> "absent"], [k |-> "unreadable"], [k |-> "garbage"]}
    \cup {[k |-> "parsed", doc |-> d] : d \in Docs}

LoadInit ==
    /\ config \in Configs
    /\ load_pc = "start"
    /\ log = <<>>
    /\ NAME_NORMALIZATION = EmptyTable
    /\ TOWNSHIP_NORMALIZATION = EmptyTable
    /\ NormIdle
    /\ TokIdle
    /\ RecIdle
    /\ DupIdle
    /\ IdxIdle
    /\ MainIdle
    /\ StatIdle
    /\ CollapseIdle
    /\ tree_i = 0

\* line 72
LoadNames ==
    /\ load_pc = "start"
    /\ \E r \in {load_name_normalization(config)} :
          /\ NAME_NORMALIZATION' = r.table
          /\ log' = log \o r.log
    /\ load_pc' = "names"
    /\ UNCHANGED <<TOWNSHIP_NORMALIZATION, normVars, tokVars, recVars, dupVars,
                   idxVars, mainVars, config, statVars, colVars, tree_i>>

\* line 94
LoadTownships ==
    /\ load_pc = "names"
    /\ \E r \in {load_township_normalization(config)} :
          /\ TOWNSHIP_NORMALIZATION' = r.table
          /\ log' = log \o r.log
    /\ load_pc' = "loaded"
    /\ UNCHANGED <<NAME_NORMALIZATION, normVars, tokVars, recVars, dupVars,
                   idxVars, mainVars, config, statVars, colVars, tree_i>>

LoadNext == LoadNames \/ LoadTownships

SpecLoad == LoadInit /\ [][LoadNext]_vars

\* the shape the loaders expect: an object whose "reforms" is a list of
\* objects with a list "mappings" of {old, new} texts, and whose
\* "township_renames" is an object of objects of texts
WellShapedMapping(m) ==
    /\ m.j = "dict" /\ DOMAIN m.d = {"old", "new"}
    /\ m.d["old"].j = "str" /\ m.d["new"].j = "str"

WellShapedReform(r) ==
    /\ r.j = "dict" /\ "mappings" \in DOMAIN r.d
    /\ r.d["mappings"].j = "list"
    /\ \A i \in 1..Len(r.d["mappings"].items) :
          WellShapedMapping(r.d["mappings"].items[i])

WellShapedTownships(tw) ==
    /\ tw.j = "dict"
    /\ \A county \in DOMAIN tw.d :
          /\ tw.d[county].j = "dict"
          /\ \A n \in DOMAIN tw.d[county].d : tw.d[county].d[n].j = "str"

WellShaped(doc) ==
    /\ doc.j = "dict"
    /\ DOMAIN doc.d = {"reforms", "township_renames"}
    /\ doc.d["reforms"].j = "list"
    /\ \A i \in 1..Len(doc.d["reforms"].items) :
          WellShapedReform(doc.d["reforms"].items[i])
    /\ WellShapedTownships(doc.d["township_renames"])

\* the file is absent, unreadable, unparseable, or parseable but ill-shaped
AbsentOrMalformed == config.k # "parsed" \/ ~ WellShaped(config.doc)

\* the [WARN] lines of the log
Warnings == {i \in 1..Len(log) : log[i] \in {"WARN names", "WARN townships"}}

SectionEmpty(name, empties) ==
    /\ config.k = "parsed" /\ config.doc.j = "dict"
    /\ \/ name \notin DOMAIN config.doc.d
       \/ config.doc.d[name] \in empties

-----------------------------------------------------------------------------
(* SpecE2E: df_to_records with the built-in rename table, on frames made   *)
(* of the spec's example row and of rows near it                           *)

MaxE2ERows == 2

ChangLeCun == <<"chang", "le", CUN>>
SanJianCun == <<"san", "jian", CUN>>
HePingLu == <<"he", "ping", "lu">>
BaXianLu == <<"ba", "xian2", "lu">>
DaPingLin == <<"da", "ping", "lin">>
TaiDongXian == <<"tai", "dong", "xian">>
ChangBinXiang == <<"chang", "bin", "xiang">>

\* the village cell of the example: two villages, the first with a note
\* that holds the list separator
ExampleCell == ChangLeCun \o <<LP>> \o HePingLu \o <<DUN>> \o BaXianLu \o <<RP, DUN>>
                   \o SanJianCun

ExampleRow ==
    [language |-> StrVal(<<"ah", "mei", "yu">>),
     dialect |-> StrVal(<<"hai", "an", "ah", "mei">>),
     county |-> StrVal(TaiDongXian),
     township |-> StrVal(ChangBinXiang),
     village |-> StrVal(ExampleCell)]

\* cells near the example: full-width parentheses, another note on the same
\* village, a hamlet, the second village alone, a blank cell
E2ECells ==
    {StrVal(ExampleCell),
     StrVal(ChangLeCun \o <<FWLP>> \o HePingLu \o <<FWRP, DUN>> \o SanJianCun),
     StrVal(ChangLeCun \o <<LP>> \o DaPingLin \o <<RP>>),
     StrVal(DaPingLin \o <<DUN>> \o ChangLeCun),
     StrVal(SanJianCun),
     NoneVal}

E2ERows ==
    [language : {ExampleRow.language}, dialect : {ExampleRow.dialect},
     county : {ExampleRow.county, StrVal(<<"tai2", "dong", "xian">>)},
     township : {ExampleRow.township},
     village : E2ECells]

E2EInit ==
    /\ NAME_NORMALIZATION = BuiltinNameTable
    /\ TOWNSHIP_NORMALIZATION = EmptyTable
    /\ colmap = RequiredFields \cup {"village"}
    /\ df = <<>>
    /\ recs = <<>>
    /\ all_village_notes = EmptyTable
    /\ all_non_admin = <<>>
    /\ NormIdle
    /\ TokIdle
    /\ DupIdle
    /\ IdxIdle
    /\ MainIdle
    /\ LoadIdle
    /\ StatIdle
    /\ CollapseIdle
    /\ tree_i = 0

E2ENext == Len(df) < MaxE2ERows /\ \E row \in E2ERows : ProcessRow(row)

SpecE2E == E2EInit /\ [][E2ENext]_vars

ExampleKey == NoteKey(<<"tai2", "dong", "xian">>, ChangBinXiang, ChangLeCun)

\* C11: with the built-in rename table, whenever df_to_records takes the
\* example row it appends a record whose county is U+81FA U+6771 U+7E23 and
\* whose villages are the two villages of the cell in their order, the
\* annotation table gains the key of the first village, and no other key,
\* with the two streets joined by the ideographic comma as its value, and
\* no non-admin place is added.
C11_EndToEnd ==
    [][df' = Append(df, ExampleRow) =>
          /\ Len(recs') = Len(recs) + 1
          /\ recs'[Len(recs')].county = <<"tai2", "dong", "xian">>
          /\ recs'[Len(recs')].township = ChangBinXiang
          /\ recs'[Len(recs')].villages = <<ChangLeCun, SanJianCun>>
          /\ DOMAIN all_village_notes' = DOMAIN all_village_notes \cup {ExampleKey}
          /\ all_village_notes'[ExampleKey] = HePingLu \o <<DUN>> \o BaXianLu
          /\ \A k \in DOMAIN all_village_notes :
                k # ExampleKey => all_village_notes'[k] = all_village_notes[k]
          /\ all_non_admin' = all_non_admin]_vars

\* the example row has been taken, alone or after a row that left a place
C11_Witness ==
    /\ df # <<>>
    /\ df[Len(df)] = ExampleRow
    /\ ExampleKey \in DOMAIN all_village_notes
    /\ recs[Len(recs)].villages = <<ChangLeCun, SanJianCun>>
    /\ Len(df) = 2 => all_non_admin # <<>>

-----------------------------------------------------------------------------
(* SpecVil: df_to_records on a frame of one row, for village cells made of *)
(* up to MaxVilTokens tokens and for every short cell over an alphabet      *)

MaxVilTokens == 3
MaxVilLen == 3

\* tokens: two villages, a village with notes of each kind, with a hanging
\* note, with a space inside, after a note, and a hamlet
VilTokens ==
    {<<"jia", CUN>>,
     <<"yi", LI>>,
     <<"jia", CUN, LP, "a", RP>>,
     <<"yi", LI, LB, "a", RB, LSQ, "k", RSQ>>,
     <<"jia", CUN, LP, "a">>,
     <<"jia", SP, CUN>>,
     <<LP, "a", RP, "yi", LI>>,
     DaPingLin}

VilSeparators == {DUN, ","}

\* the cells of up to n tokens, a separator between two tokens
RECURSIVE VilCells(_)
VilCells(n) ==
    IF n = 0 THEN {<<>>}
    ELSE LET shorter == VilCells(n - 1)
         IN  shorter \cup VilTokens
                \cup {c \o <<sep>> \o tok :
                        c \in shorter \ {<<>>}, sep \in VilSeparators, tok \in VilTokens}

VilAlphabet == {"jia", CUN, LI, "a", SP, DUN, LP, RP, LB, RB, LSQ, RSQ}

VilRows ==
    [language : {StrVal(<<"a">>)}, dialect : {StrVal(<<"k">>)},
     county : {StrVal(TaiDongXian)}, township : {StrVal(TownX)},
     village : {StrVal(s) : s \in VilCells(MaxVilTokens) \cup Strs(VilAlphabet, MaxVilLen)}]

VilInit ==
    /\ NAME_NORMALIZATION = BuiltinNameTable
    /\ TOWNSHIP_NORMALIZATION = EmptyTable
    /\ colmap = RequiredFields \cup {"village"}
    /\ df = <<>>
    /\ recs = <<>>
    /\ all_village_notes = EmptyTable
    /\ all_non_admin = <<>>
    /\ NormIdle
    /\ TokIdle
    /\ DupIdle
    /\ IdxIdle
    /\ MainIdle
    /\ LoadIdle
    /\ StatIdle
    /\ CollapseIdle
    /\ tree_i = 0

VilNext == df = <<>> /\ \E row \in VilRows : ProcessRow(row)

SpecVil == VilInit /\ [][VilNext]_vars

\* the tokens split_multi sees in village_raw, the normalized village cell
VilTokensOf(raw) == split_aware_of_brackets(norm_text(StrVal(raw)), MultiSeparators)

\* the first token whose cleaned name is v
FirstToken(toks, v) == SetMin({i \in 1..Len(toks) : clean_village_name(toks[i]) = v})

\* C12: in every record built from a village cell the villages sequence has
\* no element twice and lists its elements in the order in which their tokens
\* first appear in the cell; every element ends with one of the two suffix
\* glyphs and holds no opening bracket glyph of the three kinds, hence no
\* bracketed substring; every token whose name ends with a suffix glyph is
\* listed, and a cell in which no token has the suffix gives no village.
C12_VillagesInvariant ==
    LastRowKept =>
        \A toks \in {VilTokensOf(norm_text(LastRow.village))} :
            LET vs == recs[Len(recs)].villages
            IN  /\ \A i, j \in 1..Len(vs) : vs[i] = vs[j] => i = j
                /\ \A i \in 1..Len(vs) :
                      /\ vs[i] # <<>>
                      /\ Last(vs[i]) \in {CUN, LI}
                      /\ \A n \in 1..Len(vs[i]) : vs[i][n] \notin {LP, FWLP, LB, LSQ}
                      /\ \E n \in 1..Len(toks) : clean_village_name(toks[n]) = vs[i]
                /\ \A i, j \in 1..Len(vs) :
                      i < j => FirstToken(toks, vs[i]) < FirstToken(toks, vs[j])
                /\ \A n \in 1..Len(toks) :
                      LET name == clean_village_name(toks[n])
                      IN  InSeq(name, vs) <=> (name # <<>> /\ Last(name) \in {CUN, LI})
                /\ (\A n \in 1..Len(toks) : CUN \notin {toks[n][m] : m \in 1..Len(toks[n])}
                                           /\ LI \notin {toks[n][m] : m \in 1..Len(toks[n])})
                      => vs = <<>>

\* a cell of three tokens gave two villages: two of the tokens name the same
\* village, and a token carries a corner-bracket note
C12_Witness ==
    /\ LastRowKept
    /\ Len(recs[Len(recs)].villages) = 2
    /\ LET toks == VilTokensOf(norm_text(LastRow.village))
       IN  /\ Len(toks) = 3
           /\ \E n, m \in 1..3 :
                 /\ n < m
                 /\ clean_village_name(toks[n]) = clean_village_name(toks[m])
                 /\ toks[n] # toks[m]
           /\ \E n \in 1..3 : \E c \in 1..Len(toks[n]) : toks[n][c] = LB

-----------------------------------------------------------------------------
(* The annotation fragments of a token                                     *)

\* the position of the first closer at or after i, 0 if there is none
FirstCloser(s, i, closer) ==
    IF \E n \in i..Len(s) : s[n] = closer
    THEN SetMin({n \in i..Len(s) : s[n] = closer})
    ELSE 0

\* the contents of the well-formed bracketed substrings of the three kinds,
\* scanning from position i, in their order of appearance
RECURSIVE BracketContentsFrom(_, _)
BracketContentsFrom(s, i) ==
    IF i > Len(s) THEN <<>>
    ELSE IF s[i] \in {LP, LB, LSQ}
              /\ FirstCloser(s, i + 1, CloserOf(s[i])) # 0
         THEN LET c == FirstCloser(s, i + 1, CloserOf(s[i]))
              IN  <<SubSeq(s, i + 1, c - 1)>> \o BracketContentsFrom(s, c + 1)
         ELSE BracketContentsFrom(s, i + 1)

BracketContents(s) == BracketContentsFrom(s, 1)

\* the tokens extract_village_annotations sees in the last row's village cell
AnnotTokens == split_aware_of_brackets(norm_text(LastRow.village), AnnotSeparators)

\* C13: for every token of a village cell the fragments the extractor
\* captures are the contents (trimmed, blank ones left out) of all well-formed
\* bracketed substrings of the three kinds, in their order of appearance in
\* the token, whether the token is a village or a place.
C13_FragmentsAllKindsInOrder ==
    LastRowKept =>
        \A toks \in {AnnotTokens} : \A n \in 1..Len(toks) :
            TokenNotes(toks[n]) = StripNotes(BracketContents(CollapseCJK(toks[n])))

-----------------------------------------------------------------------------
(* compute_admin_division_stats_v2 (lines 422-503)                         *)

\* f"{lang}|{dia}"
DKey(lang, dia) == lang \o <<"|">> \o dia

\* dkey.split("|", 1)
SplitFirstBar(dkey) ==
    LET bar == SetMin({i \in 1..Len(dkey) : dkey[i] = "|"})
    IN  <<SubSeq(dkey, 1, bar - 1), SubSeq(dkey, bar + 1, Len(dkey))>>

\* sets.setdefault(key, set()).add(x)
SetDefaultAdd(sets, key, x) == (key :> (DictGet(sets, key, {}) \cup {x})) @@ sets

\* lines 433-445
EmptyStatSets ==
    [overall_counties |-> {}, overall_townships |-> {}, overall_villages |-> {},
     lang_counties |-> EmptyTable, lang_townships |-> EmptyTable,
     lang_villages |-> EmptyTable,
     dia_counties |-> EmptyTable, dia_townships |-> EmptyTable,
     dia_villages |-> EmptyTable]

\* the loop of lines 468-473 over the villages of one record
RECURSIVE StatVillages(_, _, _)
StatVillages(villages, r, sets) ==
    IF villages = <<>> THEN sets
    ELSE LET v == Head(villages)
             triple == <<r.county, r.township, v>>
             dkey == DKey(r.language, r.dialect)
         IN  StatVillages(Tail(villages), r,
                IF v = <<>> THEN sets
                ELSE [sets EXCEPT
                        !.overall_villages = @ \cup {triple},
                        !.lang_villages = SetDefaultAdd(@, r.language, triple),
                        !.dia_villages = SetDefaultAdd(@, dkey, triple)])

\* a plausible slip: the test of line 452 without the dialect
StatStepNoDialectTest(sets, r) ==
    IF r.language = <<>> \/ r.county = <<>> \/ r.township = <<>>
    THEN sets
    ELSE LET dkey == DKey(r.language, r.dialect)
             pair == <<r.county, r.township>>
             counted ==
                 [sets EXCEPT
                    !.overall_counties = @ \cup {r.county},
                    !.overall_townships = @ \cup {pair},
                    !.lang_counties = SetDefaultAdd(@, r.language, r.county),
                    !.lang_townships = SetDefaultAdd(@, r.language, pair),
                    !.dia_counties = SetDefaultAdd(@, dkey, r.county),
                    !.dia_townships = SetDefaultAdd(@, dkey, pair)]
         IN  StatVillages(IF "villages" \in DOMAIN r THEN r.villages ELSE <<>>,
                          r, counted)

\* one iteration of the loop over the records (lines 447-473)
StatStep(sets, r) ==
    IF r.language = <<>> \/ r.dialect = <<>> \/ r.county = <<>> \/ r.township = <<>>
    THEN sets
    ELSE LET dkey == DKey(r.language, r.dialect)
             pair == <<r.county, r.township>>
             counted ==
                 [sets EXCEPT
                    !.overall_counties = @ \cup {r.county},
                    !.overall_townships = @ \cup {pair},
                    !.lang_counties = SetDefaultAdd(@, r.language, r.county),
                    !.lang_townships = SetDefaultAdd(@, r.language, pair),
                    !.dia_counties = SetDefaultAdd(@, dkey, r.county),
                    !.dia_townships = SetDefaultAdd(@, dkey, pair)]
         IN  StatVillages(IF "villages" \in DOMAIN r THEN r.villages ELSE <<>>,
                          r, counted)

\* lines 475-503: the counts; the two dicts are listed by key, which the
\* code sorts
StatResult(sets) ==
    [overall |->
        [county_count |-> Cardinality(sets.overall_counties),
         township_count |-> Cardinality(sets.overall_townships),
         village_count |-> Cardinality(sets.overall_villages)],
     perLanguage |->
        [lang \in DOMAIN sets.lang_counties \cup DOMAIN sets.lang_townships
                    \cup DOMAIN sets.lang_villages |->
            [county_count |-> Cardinality(DictGet(sets.lang_counties, lang, {})),
             township_count |-> Cardinality(DictGet(sets.lang_townships, lang, {})),
             village_count |-> Cardinality(DictGet(sets.lang_villages, lang, {}))]],
     perDialect |->
        [dkey \in DOMAIN sets.dia_counties \cup DOMAIN sets.dia_townships
                    \cup DOMAIN sets.dia_villages |->
            [language |-> SplitFirstBar(dkey)[1],
             dialect |-> SplitFirstBar(dkey)[2],
             county_count |-> Cardinality(DictGet(sets.dia_counties, dkey, {})),
             township_count |-> Cardinality(DictGet(sets.dia_townships, dkey, {})),
             village_count |-> Cardinality(DictGet(sets.dia_villages, dkey, {}))]]]

RECURSIVE StatFold(_, _)
StatFold(sets, records) ==
    IF records = <<>> THEN sets ELSE StatFold(StatStep(sets, Head(records)), Tail(records))

compute_admin_division_stats_v2(records) == StatResult(StatFold(EmptyStatSets, records))

-----------------------------------------------------------------------------
(* SpecStats: compute_admin_division_stats_v2 over every record list of up *)
(* to MaxStatRecs records                                                  *)

MaxStatRecs == 3

StatRec(lang, dia, county, town, villages) ==
    [language |-> lang, dialect |-> dia, county |-> county, township |-> town,
     villages |-> villages]

\* records: one and two villages; an empty village string; no villages
\* field; two records whose language and dialect differ and give the same
\* key text; records lacking a language, a dialect or a township
StatRecords ==
    {StatRec(<<"a">>, <<"k">>, CountyA, TownX, <<VillageA>>),
     StatRec(<<"a">>, <<"k">>, CountyA, TownX, <<VillageA, VillageB>>),
     StatRec(<<"a">>, <<"n">>, CountyA, TownY, <<<<>>, VillageA>>),
     [language |-> <<"b">>, dialect |-> <<"k">>, county |-> CountyB, township |-> TownX],
     StatRec(<<"a", "|", "b">>, <<"k">>, CountyA, TownX, <<VillageB>>),
     StatRec(<<"a">>, <<"b", "|", "k">>, CountyB, TownY, <<VillageA>>),
     StatRec(<<>>, <<"k">>, CountyB, TownZ, <<VillageA>>),
     StatRec(<<"b">>, <<>>, CountyB, TownZ, <<VillageB>>),
     StatRec(<<"a">>, <<"k">>, CountyB, <<>>, <<VillageB>>)}

StatsInit ==
    /\ NAME_NORMALIZATION = EmptyTable
    /\ TOWNSHIP_NORMALIZATION = EmptyTable
    /\ colmap = {}
    /\ df = <<>>
    /\ recs \in UNION {[1..n -> StatRecords] : n \in 0..MaxStatRecs}
    /\ all_village_notes = <<>>
    /\ all_non_admin = <<>>
    /\ stat_sets = EmptyStatSets
    /\ stat_i = 0
    /\ stats = <<>>
    /\ NormIdle
    /\ TokIdle
    /\ DupIdle
    /\ IdxIdle
    /\ MainIdle
    /\ LoadIdle
    /\ CollapseIdle
    /\ tree_i = 0

\* one iteration of the loop of line 447
StatIter ==
    /\ stats = <<>>
    /\ stat_i < Len(recs)
    /\ stat_sets' = StatStep(stat_sets, recs[stat_i + 1])
    /\ stat_i' = stat_i + 1
    /\ UNCHANGED <<tableVars, normVars, tokVars, recVars, dupVars, idxVars,
                   mainVars, loadVars, stats, colVars, tree_i>>

\* lines 475-503
StatReturn ==
    /\ stats = <<>>
    /\ stat_i = Len(recs)
    /\ stats' = <<StatResult(stat_sets)>>
    /\ UNCHANGED <<tableVars, normVars, tokVars, recVars, dupVars, idxVars,
                   mainVars, loadVars, stat_sets, stat_i, colVars, tree_i>>

StatsNext == StatIter \/ StatReturn

SpecStats == StatsInit /\ [][StatsNext]_vars

\* the records of a scope that count: all four fields non-empty
CountingRecords(InScope(_)) ==
    {i \in 1..Len(recs) : Complete(recs[i]) /\ InScope(recs[i])}

\* the distinct counties, (county, township) pairs and (county, township,
\* village) triples among them, as counts
ExpectedCounts(InScope(_)) ==
    LET is == CountingRecords(InScope)
        vill(i) == IF "villages" \in DOMAIN recs[i]
                   THEN {recs[i].villages[n] : n \in 1..Len(recs[i].villages)} \ {<<>>}
                   ELSE {}
    IN  [county_count |-> Cardinality({recs[i].county : i \in is}),
         township_count |-> Cardinality({<<recs[i].county, recs[i].township>> : i \in is}),
         village_count |->
             Cardinality(UNION {{<<recs[i].county, recs[i].township, v>> : v \in vill(i)}
                                   : i \in is})]

CountsOf(entry) ==
    [county_count |-> entry.county_count, township_count |-> entry.township_count,
     village_count |-> entry.village_count]

\* C14: the result holds, for the overall scope, for each language and for
\* each language|dialect key of the records that have language, dialect,
\* county and township, the number of distinct counties, of distinct (county,
\* township) pairs and of distinct (county, township, village) triples with a
\* non-empty village among those records of the scope; no other key is
\* listed; and the result is the same for every reordering of the records
\* and when a record is repeated.
C14_StatsExact ==
    stats # <<>> =>
        LET res == stats[1]
            all == CountingRecords(LAMBDA r : TRUE)
        IN  /\ res.overall = ExpectedCounts(LAMBDA r : TRUE)
            /\ DOMAIN res.perLanguage = {recs[i].language : i \in all}
            /\ \A lang \in DOMAIN res.perLanguage :
                  res.perLanguage[lang] = ExpectedCounts(LAMBDA r : r.language = lang)
            /\ DOMAIN res.perDialect = {DKey(recs[i].language, recs[i].dialect) : i \in all}
            /\ \A dkey \in DOMAIN res.perDialect :
                  CountsOf(res.perDialect[dkey])
                      = ExpectedCounts(LAMBDA r : DKey(r.language, r.dialect) = dkey)
            /\ \A perm \in Orderings(recs) :
                  compute_admin_division_stats_v2(perm) = res
            /\ \A i \in 1..Len(recs) :
                  compute_admin_division_stats_v2(Append(recs, recs[i])) = res

\* the result is out for three records: one lacks a field, two share county
\* and township, and a village is counted once although listed twice
C14_Witness ==
    /\ stats # <<>>
    /\ Len(recs) = 3
    /\ \E i \in 1..3 : ~ Complete(recs[i])
    /\ stats[1].overall.township_count = 1
    /\ stats[1].overall.village_count = 2
    /\ \E i, j \in 1..3 : i # j /\ Complete(recs[i]) /\ Complete(recs[j])
                          /\ VillageA \in {recs[i].villages[n] : n \in 1..Len(recs[i].villages)}
                          /\ VillageA \in {recs[j].villages[n] : n \in 1..Len(recs[j].villages)}

-----------------------------------------------------------------------------
(* SpecCollapse: Step 1 of clean_village_name (line 168) and of            *)
(* extract_village_annotations (line 225) on every token of up to          *)
(* MaxCollapseLen characters                                               *)

MaxCollapseLen == 5

CollapseAlphabet == {"jia", CUN, SP, "a"}

CollapseInit ==
    /\ NAME_NORMALIZATION = EmptyTable
    /\ TOWNSHIP_NORMALIZATION = EmptyTable
    /\ colmap = {}
    /\ df = <<>>
    /\ recs = <<>>
    /\ all_village_notes = <<>>
    /\ all_non_admin = <<>>
    /\ col_tok \in Strs(CollapseAlphabet, MaxCollapseLen)
    /\ col_site = "none"
    /\ col_out = <<>>
    /\ NormIdle
    /\ TokIdle
    /\ DupIdle
    /\ IdxIdle
    /\ MainIdle
    /\ LoadIdle
    /\ StatIdle
    /\ tree_i = 0

\* line 168
CleanStep1 ==
    /\ col_site = "none"
    /\ col_site' = "clean_village_name"
    /\ col_out' = CollapseCJK(col_tok)
    /\ UNCHANGED <<tableVars, normVars, tokVars, recVars, dupVars, idxVars,
                   mainVars, loadVars, statVars, col_tok, tree_i>>

\* line 225
ExtractStep1 ==
    /\ col_site = "none"
    /\ col_site' = "extract_village_annotations"
    /\ col_out' = CollapseCJK(col_tok)
    /\ UNCHANGED <<tableVars, normVars, tokVars, recVars, dupVars, idxVars,
                   mainVars, loadVars, statVars, col_tok, tree_i>>

CollapseNext == CleanStep1 \/ ExtractStep1

SpecCollapse == CollapseInit /\ [][CollapseNext]_vars

\* positions i < j of two ideographs of s with whitespace, and nothing but
\* whitespace, between them
SpacedIdeographs(s) ==
    {p \in (1..Len(s)) \X (1..Len(s)) :
        /\ p[1] + 1 < p[2]
        /\ s[p[1]] \in CJK
        /\ s[p[2]] \in CJK
        /\ \A k \in (p[1] + 1)..(p[2] - 1) : s[k] \in WS}

\* C15: after Step 1, in either function, no whitespace is left between two
\* ideographs of the token, runs of three or more spaced ideographs included.
C15_NoSpaceBetweenIdeographs ==
    col_site # "none" => SpacedIdeographs(col_out) = {}

-----------------------------------------------------------------------------
(* The annotation table against the villages of the records                *)

\* the keys county|township|v for the villages v of the built records
VillageKeys ==
    UNION {{NoteKey(recs[n].county, recs[n].township, recs[n].villages[m])
               : m \in 1..Len(recs[n].villages)} : n \in 1..Len(recs)}

\* C16: after any rows, every key of the annotation table is
\* county|township|v for a village v of a built record with that county and
\* township.
C16_AnnotationKeysAreVillages == DOMAIN all_village_notes \subseteq VillageKeys

-----------------------------------------------------------------------------
(* SpecBoth: df_to_records and build_tree_and_dupes over the same frame of *)
(* up to MaxBothRows rows                                                  *)

MaxBothRows == 2

TaoYuanXian == <<"tao", "yuan", "xian">>

\* village cells: one village, two villages around a comma, two around the
\* enumeration comma, a village with a note, a place that is no village, none
BothCells ==
    {StrVal(VillageA),
     StrVal(VillageA \o <<",">> \o VillageB),
     StrVal(VillageA \o <<DUN>> \o VillageB),
     StrVal(VillageA \o <<LP, "a", RP>>),
     StrVal(DaPingLin),
     NoneVal}

\* rows under a county both tables leave alone; one under the spelling both
\* rename; one under a county only the converter's table renames; one
\* without township
BothRows ==
    [language : {StrVal(<<"a">>)}, dialect : {StrVal(<<"k">>)},
     county : {StrVal(<<"tai2", "dong", "xian">>)},
     township : {StrVal(TownX)}, village : BothCells]
    \cup [language : {StrVal(<<"a">>)}, dialect : {StrVal(<<"k">>)},
          county : {StrVal(TaiDongXian), StrVal(TaoYuanXian)},
          township : {StrVal(TownX)}, village : {StrVal(VillageA)}]
    \cup [language : {StrVal(<<"a">>)}, dialect : {StrVal(<<"k">>)},
          county : {StrVal(<<"tai2", "dong", "xian">>)},
          township : {NoneVal}, village : {StrVal(VillageA)}]

BothInit ==
    /\ NAME_NORMALIZATION = BuiltinNameTable
    /\ TOWNSHIP_NORMALIZATION = EmptyTable
    /\ colmap = RequiredFields \cup {"village"}
    /\ df = <<>>
    /\ recs = <<>>
    /\ all_village_notes = <<>>
    /\ all_non_admin = <<>>
    /\ tree_i = 0
    /\ NormIdle
    /\ TokIdle
    /\ DupIdle
    /\ IdxIdle
    /\ MainIdle
    /\ LoadIdle
    /\ StatIdle
    /\ CollapseIdle

\* build_tree_and_dupes on the next row of the frame the converter has read:
\* one iteration of the loop of lines 129-151
TreeVisit ==
    /\ tree_i < Len(df)
    /\ tree_i' = tree_i + 1
    /\ LET row == df[tree_i + 1]
           county == tree_norm_text(row.county)
           town == tree_norm_text(row.township)
       IN  IF county = <<>> \/ town = <<>>
           THEN UNCHANGED <<tree, seen_village, pair_ct, triple_ct, fullrow_ct>>
           ELSE \E st \in {VillageLoop(RowVillages(row), RowLang(row), RowDia(row),
                                       county, town,
                                       [tree |-> tree, seen_village |-> seen_village,
                                        triple_ct |-> triple_ct,
                                        fullrow_ct |-> fullrow_ct])} :
                    /\ pair_ct' = CounterInc(pair_ct, <<county, town>>)
                    /\ tree' = st.tree
                    /\ seen_village' = st.seen_village
                    /\ triple_ct' = st.triple_ct
                    /\ fullrow_ct' = st.fullrow_ct
    /\ UNCHANGED <<tableVars, normVars, tokVars, recVars, dup_csv, idxVars,
                   mainVars, loadVars, statVars, colVars>>

BothNext ==
    \/ Len(df) < MaxBothRows /\ \E row \in BothRows : ProcessRow(row)
    \/ TreeVisit

SpecBoth == BothInit /\ [][BothNext]_vars

\* the (county, township, village) triples of the built records
RecordTriples ==
    UNION {{<<recs[n].county, recs[n].township, recs[n].villages[m]>>
               : m \in 1..Len(recs[n].villages)} : n \in 1..Len(recs)}

\* C17: once both tools have read the same rows, the triples counted by
\* build_tree_and_dupes are exactly the (county, township, village) triples
\* of the records built by df_to_records.
C17_ToolsAgree ==
    tree_i = Len(df) => CounterKeys(triple_ct) = RecordTriples

====
